---- MODULE Spec2Model ----
(***************************************************************************)
(* Model of the document normalisers of the repository:                    *)
(*   plain_text_to_html  (src/doc-converter.py)                            *)
(*   format_paragraph, docx_to_html  (src/gdoc-shopifyv2.py)               *)
(*   clean_html  (src/shopify-contentful.py)                               *)
(*                                                                         *)
(* Strings are sequences of tokens.  A token is one character (" ", "a",   *)
(* "-", "1", ...) or one fixed literal of the source ("Title:",            *)
(* "[FIND OUT MORE]", "<strong>", ...).  One behaviour is one invocation   *)
(* of one of the functions; prog says which.                               *)
(***************************************************************************)
EXTENDS Integers, Sequences, FiniteSets, TLC

VARIABLES prog, pc, pos, in_list, list_type,
          lines, output, list_items,
          paras, html, markdown, list_buffer, md_list_buffer,
          raw_html, soup, snapshot, result,
          other,
          start_date, end_date, batch_days, current_date, batch_count,
          requests, all_data,
          session_state, clicked

vars == <<prog, pc, pos, in_list, list_type, lines, output, list_items,
          paras, html, markdown, list_buffer, md_list_buffer,
          raw_html, soup, snapshot, result,
          other,
          start_date, end_date, batch_days, current_date, batch_count,
          requests, all_data,
          session_state, clicked>>

\* the variables of each function: the others stay as Init left them
listVars == <<in_list, list_type>>
txtVars == <<lines, output, list_items>>
docxVars == <<paras, html, markdown, list_buffer, md_list_buffer>>
cleanVars == <<raw_html, soup, snapshot, result>>
batchVars == <<start_date, end_date, batch_days, current_date, batch_count,
               requests, all_data>>
appVars == <<session_state, clicked>>
\* what a step of one invocation of a normalizer leaves alone: the frame of
\* a suspended invocation, and the state of the other programs
restVars == <<other, batchVars, appVars>>

(* ------------------------------------------------------------------ *)
(* Bounds                                                              *)
(* ------------------------------------------------------------------ *)
MaxLines == 3
MaxParas == 3
MaxBlocks == 2

(* ------------------------------------------------------------------ *)
(* Strings                                                             *)
(* ------------------------------------------------------------------ *)
\* Characters Python's str.strip() and the regex class \s treat as white
\* space; "nbsp" is U+00A0.
WS == {" ", "\n", "nbsp"}

Digits == {"0", "1", "2", "3", "4", "5", "6", "7", "8", "9"}

BulletChars == {"-", "*", "bullet"}

NoneVal == "None"

\* no invocation is suspended
NoFrame == [prog |-> "none"]

\* fetch_data_in_batches has not been called
BatchIdle ==
  /\ start_date = 0 /\ end_date = 0 /\ batch_days = 0
  /\ current_date = 0 /\ batch_count = 0
  /\ requests = <<>> /\ all_data = <<>>

\* the Shopify-to-Contentful page is not open
AppIdle ==
  /\ session_state = [raw_html |-> <<>>, cleaned_html |-> <<>>]
  /\ clicked = <<>>

RestIdle == other = NoFrame /\ BatchIdle /\ AppIdle

RECURSIVE LStrip(_)
LStrip(s) == IF s # <<>> /\ Head(s) \in WS THEN LStrip(Tail(s)) ELSE s

RECURSIVE RStrip(_)
RStrip(s) ==
  IF s # <<>> /\ s[Len(s)] \in WS THEN RStrip(SubSeq(s, 1, Len(s) - 1)) ELSE s

\* str.strip()
Strip(s) == RStrip(LStrip(s))

\* Sequences over S of length 0..n
SeqsUpTo(S, n) == UNION {[1..k -> S] : k \in 0..n}

\* Tokens that are markup, not visible text
IsTagTok(t) == t \in {"<strong>", "</strong>", "<em>", "</em>", "<u>", "</u>",
                      "<a>", "</a>"}

\* the visible text of a piece of markup is empty or white space only
BlankMarkup(s) == \A i \in 1..Len(s) : IsTagTok(s[i]) \/ s[i] \in WS

(* ------------------------------------------------------------------ *)
(* plain_text_to_html: the tests of the loop body                      *)
(* ------------------------------------------------------------------ *)
\* line.lower().startswith("title:")
StartsTitle(line) == line # <<>> /\ line[1] = "Title:"

\* line.lower().startswith("meta title:") or ... "meta description:" or ... "status:"
StartsMeta(line) ==
  line # <<>> /\ line[1] \in {"Meta title:", "Meta description:", "Status:"}

\* re.match(r"^heading \d:", line.lower())
MatchHeadingPrefix(line) ==
  Len(line) >= 3 /\ line[1] = "Heading " /\ line[2] \in Digits /\ line[3] = ":"

\* re.match(r"^heading (\d):(.+)", line, re.IGNORECASE)
MatchHeading(line) == MatchHeadingPrefix(line) /\ Len(line) >= 4

\* "[Related article:" in line   /   "[product-carousel" in line
Contains(line, tok) == \E i \in 1..Len(line) : line[i] = tok

\* re.findall(r"\[<marker> (.*?)\]", line): the start positions that match
MarkerMatches(line, tok) ==
  {i \in 1..Len(line) :
      /\ line[i] = tok
      /\ i + 1 <= Len(line) /\ line[i + 1] = " "
      /\ \E j \in (i + 2)..Len(line) : line[j] = "]"}

Min(S) == CHOOSE x \in S : \A y \in S : x <= y
Max(S) == CHOOSE x \in S : \A y \in S : x >= y

\* related[0] / prod[0]: the lazy group of the leftmost match
FirstGroup(line, tok) ==
  LET i == Min(MarkerMatches(line, tok))
      j == Min({k \in (i + 2)..Len(line) : line[k] = "]"})
  IN SubSeq(line, i + 2, j - 1)

\* re.match(r"^[-*•]\s+", line)
MatchBullet(line) == Len(line) >= 2 /\ line[1] \in BulletChars /\ line[2] \in WS

\* re.sub(r"^[-*•]\s+", "", line)
SubBullet(line) == LStrip(Tail(line))

RECURSIVE LeadingDigits(_)
LeadingDigits(s) ==
  IF s # <<>> /\ Head(s) \in Digits THEN 1 + LeadingDigits(Tail(s)) ELSE 0

\* re.match(r"^\d+\.\s+", line)
MatchNumbered(line) ==
  LET d == LeadingDigits(line)
  IN d >= 1 /\ Len(line) >= d + 2 /\ line[d + 1] = "." /\ line[d + 2] \in WS

\* re.sub(r"^\d+\.\s+", "", line)
SubNumbered(line) ==
  LStrip(SubSeq(line, LeadingDigits(line) + 2, Len(line)))

\* The branch of the loop body a stripped line takes (the if/elif chain, in
\* the order of the source).
TxtBranch(line) ==
  IF line = <<>> THEN "blank"
  ELSE IF StartsTitle(line) THEN "title"
  ELSE IF StartsMeta(line) THEN "meta"
  ELSE IF MatchHeadingPrefix(line) THEN "heading"
  ELSE IF line = <<"[FIND OUT MORE]">> THEN "cta"
  ELSE IF Contains(line, "[Related article:") THEN "related"
  ELSE IF Contains(line, "[product-carousel") THEN "carousel"
  ELSE IF MatchBullet(line) THEN "ul"
  ELSE IF MatchNumbered(line) THEN "ol"
  ELSE "p"

(* ------------------------------------------------------------------ *)
(* Output elements.  One record per string appended to the output      *)
(* list: k is "open"/"close" for a list tag, "elem" for a whole        *)
(* element, "comment" for an HTML comment.  src is the index of the    *)
(* input block the string came from (0 for list tags).                 *)
(* ------------------------------------------------------------------ *)
Out(k, tag, lvl, body, src) ==
  [k |-> k, tag |-> tag, lvl |-> lvl, body |-> body, src |-> src]

Item(text, src) == [text |-> text, src |-> src]

RECURSIVE ItemsToLi(_)
ItemsToLi(items) ==
  IF items = <<>> THEN <<>>
  ELSE <<Out("elem", "li", "", Head(items).text, Head(items).src)>>
         \o ItemsToLi(Tail(items))

\* plain_text_to_html.flush_list: the strings it appends to output
TxtFlushOut(items, ltype) ==
  IF items # <<>>
  THEN LET tag == IF ltype = "ul" THEN "ul" ELSE "ol"
       IN <<Out("open", tag, "", <<>>, 0)>> \o ItemsToLi(items)
            \o <<Out("close", tag, "", <<>>, 0)>>
  ELSE <<>>

\* flush_list() followed by output.append(e): es holds e, or nothing
TxtFlushThen(es) ==
  /\ output' = output \o TxtFlushOut(list_items, list_type) \o es
  /\ IF list_items # <<>>
     THEN list_items' = <<>> /\ in_list' = FALSE /\ list_type' = NoneVal
     ELSE UNCHANGED <<list_items, in_list, list_type>>

\* flush_list() alone
TxtFlush == TxtFlushThen(<<>>)

(* ------------------------------------------------------------------ *)
(* Inputs of plain_text_to_html                                        *)
(* ------------------------------------------------------------------ *)
TxtLineSet ==
  { <<>>,
    <<" ">>,
    <<"a">>,
    <<"-", " ", "a">>,
    <<" ", "*", " ", " ", "b", " ">>,
    <<"-", "a">>,
    <<"1", ".", " ", "c">>,
    <<"1", "2", ".", "nbsp", "d">>,
    <<"Title:", " ", "a">>,
    <<"Title:">>,
    <<"Status:", "a">>,
    <<"Heading ", "2", ":", " ", "a">>,
    <<"Heading ", "2", ":">>,
    <<"Heading ", "0", ":", "a">>,
    <<"[FIND OUT MORE]">>,
    <<"[Related article:", " ", "a", "]">>,
    <<"-", " ", "[Related article:", "a">>,
    <<"[product-carousel", " ", "7", "]">>,
    <<"[product-carousel", "]">> }

(* ------------------------------------------------------------------ *)
(* plain_text_to_html                                                  *)
(* ------------------------------------------------------------------ *)
InitTxt ==
  /\ prog = "txt"
  /\ pc = "loop"
  /\ lines \in SeqsUpTo(TxtLineSet, MaxLines)
  /\ pos = 0
  /\ output = <<>>
  /\ in_list = FALSE
  /\ list_type = NoneVal
  /\ list_items = <<>>
  /\ paras = <<>> /\ html = <<>> /\ markdown = <<>>
  /\ list_buffer = <<>> /\ md_list_buffer = <<>>
  /\ raw_html = <<>> /\ soup = <<>> /\ snapshot = <<>> /\ result = <<>>
  /\ RestIdle

\* the line the loop body is about to process, stripped (line = line.strip())
CurLine == Strip(lines[pos + 1])

TxtAt(branch) ==
  /\ prog = "txt" /\ pc = "loop"
  /\ pos < Len(lines)
  /\ TxtBranch(CurLine) = branch
  /\ pos' = pos + 1
  /\ UNCHANGED <<prog, pc, lines, docxVars, cleanVars, restVars>>

TxtBlank == TxtAt("blank") /\ TxtFlush

TxtTitle ==
  /\ TxtAt("title")
  /\ TxtFlushThen(<<Out("elem", "h", "1", Strip(Tail(CurLine)), pos + 1)>>)

TxtMeta ==
  /\ TxtAt("meta")
  /\ TxtFlushThen(<<Out("comment", "", "", Strip(CurLine), pos + 1)>>)

TxtHeading ==
  /\ TxtAt("heading")
  /\ TxtFlushThen(IF MatchHeading(CurLine)
                  THEN <<Out("elem", "h", CurLine[2],
                             Strip(SubSeq(CurLine, 4, Len(CurLine))), pos + 1)>>
                  ELSE <<>>)

TxtCta ==
  /\ TxtAt("cta")
  /\ TxtFlushThen(<<Out("elem", "p", "", <<"<a>", "FIND OUT MORE", "</a>">>, pos + 1)>>)

TxtRelated ==
  /\ TxtAt("related")
  /\ TxtFlushThen(IF MarkerMatches(CurLine, "[Related article:") # {}
                  THEN <<Out("elem", "p", "",
                             <<"<em>", "Related article: ">>
                               \o FirstGroup(CurLine, "[Related article:")
                               \o <<"</em>">>, pos + 1)>>
                  ELSE <<>>)

TxtCarousel ==
  /\ TxtAt("carousel")
  /\ TxtFlushThen(IF MarkerMatches(CurLine, "[product-carousel") # {}
                  THEN <<Out("elem", "div", "", <<>>, pos + 1)>>
                  ELSE <<>>)

\* faulty variant of the list branches: list_type is set by every item
TxtListItem_Retype(kind, item) ==
  /\ list_type' = kind
  /\ in_list' = TRUE
  /\ list_items' = Append(list_items, Item(item, pos + 1))
  /\ UNCHANGED output

\* the two list branches: the guarded flush, then the append
TxtListItem(kind, item) ==
  /\ IF ~in_list
     THEN /\ output' = output \o TxtFlushOut(list_items, list_type)
          /\ in_list' = TRUE
          /\ list_type' = kind
          /\ list_items' = Append(IF list_items # <<>> THEN <<>> ELSE list_items,
                                  Item(item, pos + 1))
     ELSE /\ list_items' = Append(list_items, Item(item, pos + 1))
          /\ UNCHANGED <<output, in_list, list_type>>

TxtBullet == TxtAt("ul") /\ TxtListItem("ul", SubBullet(CurLine))

TxtNumbered == TxtAt("ol") /\ TxtListItem("ol", SubNumbered(CurLine))

\* faulty variant of the paragraph branch: output.append without flush_list()
TxtParagraph_NoFlush ==
  /\ TxtAt("p")
  /\ output' = Append(output, Out("elem", "p", "", CurLine, pos + 1))
  /\ UNCHANGED <<list_items, in_list, list_type>>

TxtParagraph ==
  /\ TxtAt("p")
  /\ TxtFlushThen(<<Out("elem", "p", "", CurLine, pos + 1)>>)

\* after the loop: flush_list(); return "\n".join(output)
TxtFinish ==
  /\ prog = "txt" /\ pc = "loop"
  /\ pos = Len(lines)
  /\ TxtFlush
  /\ pc' = "done"
  /\ UNCHANGED <<prog, lines, pos, docxVars, cleanVars, restVars>>

NextTxt ==
  \/ TxtBlank \/ TxtTitle \/ TxtMeta \/ TxtHeading \/ TxtCta \/ TxtRelated
  \/ TxtCarousel \/ TxtBullet \/ TxtNumbered \/ TxtParagraph \/ TxtFinish

(* ------------------------------------------------------------------ *)
(* format_paragraph (src/gdoc-shopifyv2.py)                            *)
(* ------------------------------------------------------------------ *)
\* A run of a paragraph: run.text (python-docx gives "\n" for each
\* <w:br>), whether the run's XML holds a <w:br>, and the style flags.
Run(text, br, bold, italic, underline) ==
  [text |-> text, br |-> br, bold |-> bold, italic |-> italic,
   underline |-> underline]

Para(style, numPr, runs) == [style |-> style, numPr |-> numPr, runs |-> runs]

\* HEADING_STYLES: style name -> the digit of the heading tag
HEADING_STYLES ==
  [s \in {"Title", "Heading 1", "Heading 2", "Heading 3", "Heading 4",
          "Heading 5", "Heading 6"} |->
     CASE s = "Title" -> "1"
       [] s = "Heading 1" -> "1"
       [] s = "Heading 2" -> "2"
       [] s = "Heading 3" -> "3"
       [] s = "Heading 4" -> "4"
       [] s = "Heading 5" -> "5"
       [] s = "Heading 6" -> "6"]

\* "Numbered" in style, over the style names of the model
HasNumbered(style) == style \in {"Numbered List"}

\* faulty variant of the run formatting: strip_bold is ignored
FormatRun_KeepBold(run, strip_bold) ==
  IF run.bold /\ run.italic
    THEN <<"<strong>", "<em>">> \o run.text \o <<"</em>", "</strong>">>
  ELSE IF run.bold THEN <<"<strong>">> \o run.text \o <<"</strong>">>
  ELSE IF run.italic THEN <<"<em>">> \o run.text \o <<"</em>">>
  ELSE IF run.underline THEN <<"<u>">> \o run.text \o <<"</u>">>
  ELSE run.text

\* faulty variant of the run formatting: underline is tested before italic
FormatRun_UnderlineFirst(run, strip_bold) ==
  LET bold == IF strip_bold /\ run.bold THEN FALSE ELSE run.bold
  IN IF bold /\ run.italic
       THEN <<"<strong>", "<em>">> \o run.text \o <<"</em>", "</strong>">>
     ELSE IF bold THEN <<"<strong>">> \o run.text \o <<"</strong>">>
     ELSE IF run.underline THEN <<"<u>">> \o run.text \o <<"</u>">>
     ELSE IF run.italic THEN <<"<em>">> \o run.text \o <<"</em>">>
     ELSE run.text

\* the inline formatting of one run: "part"
FormatRun(run, strip_bold) ==
  LET bold == IF strip_bold /\ run.bold THEN FALSE ELSE run.bold
  IN IF bold /\ run.italic
       THEN <<"<strong>", "<em>">> \o run.text \o <<"</em>", "</strong>">>
     ELSE IF bold THEN <<"<strong>">> \o run.text \o <<"</strong>">>
     ELSE IF run.italic THEN <<"<em>">> \o run.text \o <<"</em>">>
     ELSE IF run.underline THEN <<"<u>">> \o run.text \o <<"</u>">>
     ELSE run.text

\* ''.join(parts)
RECURSIVE Join(_)
Join(parts) == IF parts = <<>> THEN <<>> ELSE Head(parts) \o Join(Tail(parts))

\* the loop over paragraph.runs, then the final "if current"
RECURSIVE FormatRuns(_, _, _, _)
FormatRuns(runs, current, chunks, strip_bold) ==
  IF runs = <<>>
  THEN IF current # <<>> THEN Append(chunks, Strip(Join(current))) ELSE chunks
  ELSE LET run == Head(runs)
       IN IF run.text = <<>> /\ ~run.br
          THEN FormatRuns(Tail(runs), current, chunks, strip_bold)
          ELSE LET cur == Append(current, FormatRun(run, strip_bold))
               IN IF run.br
                  THEN FormatRuns(Tail(runs), <<>>,
                                  Append(chunks, Strip(Join(cur))), strip_bold)
                  ELSE FormatRuns(Tail(runs), cur, chunks, strip_bold)

\* faulty variant of format_paragraph: line breaks do not close a chunk
format_paragraph_OneChunk(paragraph, strip_bold) ==
  FormatRuns([k \in 1..Len(paragraph.runs) |->
                [paragraph.runs[k] EXCEPT !.br = FALSE]],
             <<>>, <<>>, strip_bold)

format_paragraph(paragraph, strip_bold) ==
  FormatRuns(paragraph.runs, <<>>, <<>>, strip_bold)

\* para.text: the texts of the runs, concatenated
RECURSIVE RunsText(_)
RunsText(runs) ==
  IF runs = <<>> THEN <<>> ELSE Head(runs).text \o RunsText(Tail(runs))

ParaText(para) == RunsText(para.runs)

(* ------------------------------------------------------------------ *)
(* Inputs of docx_to_html                                              *)
(* ------------------------------------------------------------------ *)
rA == Run(<<"a">>, FALSE, FALSE, FALSE, FALSE)
rB == Run(<<"b">>, FALSE, TRUE, FALSE, FALSE)
rIU == Run(<<"c">>, FALSE, FALSE, TRUE, TRUE)
rWs == Run(<<" ">>, FALSE, FALSE, FALSE, FALSE)
rNone == Run(<<>>, FALSE, TRUE, FALSE, FALSE)
rBr == Run(<<"\n">>, TRUE, FALSE, FALSE, FALSE)
rABr == Run(<<"a", "\n">>, TRUE, FALSE, FALSE, FALSE)

ParaSet ==
  { Para("Normal", FALSE, <<rA>>),
    Para("Normal", FALSE, <<>>),
    Para("Normal", FALSE, <<rBr, rA>>),
    Para("Normal", FALSE, <<rABr, rIU>>),
    Para("Heading 2", FALSE, <<rB, rNone>>),
    Para("Title", TRUE, <<rIU>>),
    Para("List Bullet", TRUE, <<rA>>),
    Para("List Bullet", TRUE, <<rABr, rB>>),
    Para("List Bullet", TRUE, <<rWs>>),
    Para("List Bullet", TRUE, <<rABr, rWs>>),
    Para("Numbered List", TRUE, <<rB>>),
    Para("List Number", TRUE, <<rA, rWs>>),
    Para(NoneVal, FALSE, <<rA>>) }

\* one-paragraph documents, as heading, paragraph and list item:
\*  - a plain run and a run with each combination of the bold, italic and
\*    underline flags;
\*  - runs holding line breaks: a break inside the text of a run, two
\*    breaks, a break in the first and in the last run
RunDocs ==
  LET rAnB == Run(<<"a", "\n", "b">>, TRUE, FALSE, TRUE, FALSE)
      FlagDocs ==
        { <<Para(st[1], st[2], <<rA, Run(<<"x">>, FALSE, b, i, u)>>)>> :
            st \in {<<"Heading 3", FALSE>>, <<"Normal", FALSE>>, <<"List Bullet", TRUE>>},
            b \in BOOLEAN, i \in BOOLEAN, u \in BOOLEAN }
      BreakDocs ==
        { <<Para(st[1], st[2], runs)>> :
            st \in {<<"Heading 2", FALSE>>, <<"Normal", FALSE>>, <<"Numbered List", TRUE>>},
            runs \in { <<rAnB, rB>>, <<rABr, rB, rBr, rIU>>, <<rNone, rABr, rNone>>,
                       <<rB, rIU, rABr>>, <<rWs, rABr, rA, rWs>> } }
  IN FlagDocs \cup BreakDocs

\* the documents: up to MaxParas paragraphs of ParaSet, and the documents above
DocInputs == SeqsUpTo(ParaSet, MaxParas) \cup RunDocs

(* ------------------------------------------------------------------ *)
(* docx_to_html                                                        *)
(* ------------------------------------------------------------------ *)
\* one output element per chunk of paragraph number src
RECURSIVE ChunkElems(_, _, _, _, _)
ChunkElems(k, tag, lvl, chunks, src) ==
  IF chunks = <<>> THEN <<>>
  ELSE <<Out(k, tag, lvl, Head(chunks), src)>>
         \o ChunkElems(k, tag, lvl, Tail(chunks), src)

\* faulty variant of list_buffer.extend: only the first chunk becomes an item
ChunkItems_FirstOnly(chunks, src) ==
  IF chunks = <<>> THEN <<>> ELSE <<Item(Head(chunks), src)>>

RECURSIVE ChunkItems(_, _)
ChunkItems(chunks, src) ==
  IF chunks = <<>> THEN <<>>
  ELSE <<Item(Head(chunks), src)>> \o ChunkItems(Tail(chunks), src)

\* docx_to_html.flush_list: what it appends to html
DocxFlushOut(buffer, ltype) ==
  IF buffer # <<>>
  THEN LET tag == IF ltype = "ul" THEN "ul" ELSE "ol"
       IN <<Out("open", tag, "", <<>>, 0)>> \o ItemsToLi(buffer)
            \o <<Out("close", tag, "", <<>>, 0)>>
  ELSE <<>>

\* faulty variant of flush-then-append: the new elements land before the
\* pending list instead of after it
DocxFlushThen_Late(hs, ms) ==
  /\ html' = html \o hs \o DocxFlushOut(list_buffer, list_type)
  /\ markdown' = markdown \o ms \o md_list_buffer
  /\ in_list' = FALSE
  /\ list_buffer' = <<>>
  /\ md_list_buffer' = <<>>
  /\ UNCHANGED list_type

\* flush_list(), then the elements hs appended to html and ms to markdown
DocxFlushThen(hs, ms) ==
  /\ html' = html \o DocxFlushOut(list_buffer, list_type) \o hs
  /\ markdown' = markdown \o md_list_buffer \o ms
  /\ in_list' = FALSE
  /\ list_buffer' = <<>>
  /\ md_list_buffer' = <<>>
  /\ UNCHANGED list_type

InitDocx ==
  /\ prog = "docx"
  /\ pc = "loop"
  /\ paras \in DocInputs
  /\ pos = 0
  /\ html = <<>> /\ markdown = <<>>
  /\ in_list = FALSE
  /\ list_type = NoneVal
  /\ list_buffer = <<>> /\ md_list_buffer = <<>>
  /\ lines = <<>> /\ output = <<>> /\ list_items = <<>>
  /\ raw_html = <<>> /\ soup = <<>> /\ snapshot = <<>> /\ result = <<>>
  /\ RestIdle

CurPara == paras[pos + 1]

\* chunks = format_paragraph(para, strip_bold=is_heading)
CurChunks == format_paragraph(CurPara, CurPara.style \in DOMAIN HEADING_STYLES)

\* which branch of the loop body a paragraph takes; "raise" when para.style
\* is None (the document defines no default paragraph style), so that
\* para.style.name raises AttributeError
DocxBranch(para) ==
  IF Strip(ParaText(para)) = <<>> THEN "blank"
  ELSE IF para.style = NoneVal THEN "raise"
  ELSE IF para.style \in DOMAIN HEADING_STYLES THEN "heading"
  ELSE IF para.numPr THEN "list"
  ELSE "p"

DocxAt(branch) ==
  /\ prog = "docx" /\ pc = "loop"
  /\ pos < Len(paras)
  /\ DocxBranch(CurPara) = branch
  /\ pos' = pos + 1
  /\ UNCHANGED <<prog, pc, paras, txtVars, cleanVars, restVars>>

\* faulty variant of the blank-paragraph branch: continue without flush_list()
DocxBlank_NoFlush ==
  /\ DocxAt("blank")
  /\ UNCHANGED <<html, markdown, in_list, list_type, list_buffer, md_list_buffer>>

DocxBlank == DocxAt("blank") /\ DocxFlushThen(<<>>, <<>>)

DocxHeading ==
  /\ DocxAt("heading")
  /\ LET lvl == HEADING_STYLES[CurPara.style]
     IN DocxFlushThen(ChunkElems("elem", "h", lvl, CurChunks, pos + 1),
                      ChunkElems("md", "#", lvl, CurChunks, pos + 1))

DocxListPara ==
  /\ DocxAt("list")
  /\ list_type' = IF HasNumbered(CurPara.style) THEN "ol" ELSE "ul"
  /\ in_list' = TRUE
  /\ list_buffer' = list_buffer \o ChunkItems(CurChunks, pos + 1)
  /\ md_list_buffer' =
       md_list_buffer \o ChunkElems("md", IF list_type' = "ol" THEN "1." ELSE "-",
                                    "", CurChunks, pos + 1)
  /\ UNCHANGED <<html, markdown>>

DocxParagraph ==
  /\ DocxAt("p")
  /\ DocxFlushThen(ChunkElems("elem", "p", "", CurChunks, pos + 1),
                   ChunkElems("md", "", "", CurChunks, pos + 1))

\* style = para.style.name raises: no handler in docx_to_html or in its
\* caller, the call ends without a return value
DocxRaise ==
  /\ prog = "docx" /\ pc = "loop"
  /\ pos < Len(paras)
  /\ DocxBranch(CurPara) = "raise"
  /\ pc' = "raised"
  /\ UNCHANGED <<prog, pos, paras, html, markdown, listVars, list_buffer,
                 md_list_buffer, txtVars, cleanVars, restVars>>

\* after the loop: flush_list(); return the two joined strings
DocxFinish ==
  /\ prog = "docx" /\ pc = "loop"
  /\ pos = Len(paras)
  /\ DocxFlushThen(<<>>, <<>>)
  /\ pc' = "done"
  /\ UNCHANGED <<prog, paras, pos, txtVars, cleanVars, restVars>>

NextDocx ==
  \/ DocxBlank \/ DocxHeading \/ DocxListPara \/ DocxParagraph \/ DocxRaise
  \/ DocxFinish

(* ------------------------------------------------------------------ *)
(* clean_html (src/shopify-contentful.py): markup and the parse tree   *)
(* ------------------------------------------------------------------ *)
\* Markup is a sequence of tokens: a character, an opening tag with its
\* attributes (a function from attribute names to values) or a closing tag.
NoAttrs == [x \in {} |-> <<>>]
Ch(c) == [t |-> "char", v |-> c, attrs |-> NoAttrs]
Op(tag, attrs) == [t |-> "open", v |-> tag, attrs |-> attrs]
Cl(tag) == [t |-> "close", v |-> tag, attrs |-> NoAttrs]
Chars(s) == [i \in 1..Len(s) |-> Ch(s[i])]
Elem(tag, attrs, inner) == <<Op(tag, attrs)>> \o inner \o <<Cl(tag)>>

VoidTags == {"br", "img"}

\* The tree is a heap of nodes, a node's identity is its index: the Tag and
\* NavigableString objects of BeautifulSoup.  parent = 0: not in any tree.
TextNode(text, parent) ==
  [tag |-> "#text", attrs |-> NoAttrs, kids |-> <<>>, text |-> text,
   parent |-> parent]
ElemNode(tag, attrs, parent) ==
  [tag |-> tag, attrs |-> attrs, kids |-> <<>>, text |-> <<>>,
   parent |-> parent]

IsString(h, n) == h[n].tag = "#text"
IsTag(h, n) == h[n].tag # "#text"

\* tag.get(name) or ""
Attr(node, name) == IF name \in DOMAIN node.attrs THEN node.attrs[name] ELSE <<>>

\* tag.attrs.pop(name, None) / del tag.attrs[name]
DelAttr(attrs, name) == [k \in (DOMAIN attrs) \ {name} |-> attrs[k]]

\* start tags in front of which the parser closes an open <p>
PClosers == {"p", "ul", "ol", "li", "div", "h1", "h2", "h3", "h4", "h5", "h6"}

\* the positions of the open elements named tag that an end tag (or the
\* implied end of <p>) can reach: for </li> not through a <ul> or <ol>
OpenAt(h, stack, tag) ==
  {i \in 2..Len(stack) :
     /\ h[stack[i]].tag = tag
     /\ tag = "li" => \A j \in (i + 1)..Len(stack) : h[stack[j]].tag \notin {"ul", "ol"}}

\* the stack of open elements once the innermost open tag is closed; the
\* stack unchanged when none is open
CloseOpen(h, stack, tag) ==
  IF OpenAt(h, stack, tag) = {} THEN stack
  ELSE SubSeq(stack, 1, Max(OpenAt(h, stack, tag)) - 1)

\* the tree builder of the lenient parser: characters extend the text node
\* before them; a start tag adds an element, after closing an open <p> when
\* the tag is a block; an end tag closes the innermost open element of its
\* name with everything opened inside it, is dropped when there is none,
\* and </p> without an open <p> adds an empty <p>
RECURSIVE ParseToks(_, _, _)
ParseToks(h, toks, stack) ==
  IF toks = <<>> THEN h
  ELSE LET tk == Head(toks)
       IN IF tk.t = "char"
          THEN LET top == stack[Len(stack)]
                   ks == h[top].kids
                   id == Len(h) + 1
               IN IF ks # <<>> /\ h[ks[Len(ks)]].tag = "#text"
                  THEN ParseToks([h EXCEPT ![ks[Len(ks)]].text = Append(@, tk.v)],
                                 Tail(toks), stack)
                  ELSE ParseToks(Append([h EXCEPT ![top].kids = Append(@, id)],
                                        TextNode(<<tk.v>>, top)),
                                 Tail(toks), stack)
          ELSE IF tk.t = "open"
          THEN LET st == IF tk.v \in PClosers THEN CloseOpen(h, stack, "p") ELSE stack
                   top == st[Len(st)]
                   id == Len(h) + 1
               IN ParseToks(Append([h EXCEPT ![top].kids = Append(@, id)],
                                   ElemNode(tk.v, tk.attrs, top)),
                            Tail(toks),
                            IF tk.v \in VoidTags THEN st ELSE Append(st, id))
          ELSE IF tk.v = "p" /\ OpenAt(h, stack, "p") = {}
          THEN LET top == stack[Len(stack)]
                   id == Len(h) + 1
               IN ParseToks(Append([h EXCEPT ![top].kids = Append(@, id)],
                                   ElemNode("p", NoAttrs, top)),
                            Tail(toks), stack)
          ELSE ParseToks(h, Tail(toks), CloseOpen(h, stack, tk.v))

\* white space the parser drops in front of the body
HtmlWS == {" ", "\n"}

RECURSIVE DropLeadingWs(_)
DropLeadingWs(toks) ==
  IF toks # <<>> /\ Head(toks).t = "char" /\ Head(toks).v \in HtmlWS
  THEN DropLeadingWs(Tail(toks)) ELSE toks

\* BeautifulSoup(markup, HTML_PARSER): the heap with the new document added;
\* its body is node Len(h) + 1
BeautifulSoup(h, markup) ==
  ParseToks(Append(h, ElemNode("body", NoAttrs, 0)), DropLeadingWs(markup),
            <<Len(h) + 1>>)

\* soup.body of the document being cleaned
Body == 1

\* tag.decode_contents()
RECURSIVE Decode(_, _)
Decode(h, ids) ==
  IF ids = <<>> THEN <<>>
  ELSE LET n == h[Head(ids)]
       IN (IF n.tag = "#text" THEN Chars(n.text)
           ELSE IF n.tag \in VoidTags THEN <<Op(n.tag, n.attrs)>>
           ELSE <<Op(n.tag, n.attrs)>> \o Decode(h, n.kids) \o <<Cl(n.tag)>>)
          \o Decode(h, Tail(ids))

decode_contents(h, n) == Decode(h, h[n].kids)

IsWsTok(tk) == tk.t = "char" /\ tk.v \in WS

\* re.sub(r"\s+", " ", markup)
RECURSIVE CollapseWsToks(_)
CollapseWsToks(toks) ==
  IF toks = <<>> THEN <<>>
  ELSE IF IsWsTok(Head(toks))
       THEN IF Len(toks) > 1 /\ IsWsTok(toks[2])
            THEN CollapseWsToks(Tail(toks))
            ELSE <<Ch(" ")>> \o CollapseWsToks(Tail(toks))
       ELSE <<Head(toks)>> \o CollapseWsToks(Tail(toks))

RECURSIVE LStripToks(_)
LStripToks(s) == IF s # <<>> /\ IsWsTok(Head(s)) THEN LStripToks(Tail(s)) ELSE s

RECURSIVE RStripToks(_)
RStripToks(s) ==
  IF s # <<>> /\ IsWsTok(s[Len(s)])
  THEN RStripToks(SubSeq(s, 1, Len(s) - 1)) ELSE s

\* markup.strip()
StripToks(s) == RStripToks(LStripToks(s))

\* re.sub(r"\s+", " ", text)
RECURSIVE CollapseWs(_)
CollapseWs(s) ==
  IF s = <<>> THEN <<>>
  ELSE IF Head(s) \in WS
       THEN IF Len(s) > 1 /\ s[2] \in WS
            THEN CollapseWs(Tail(s))
            ELSE <<" ">> \o CollapseWs(Tail(s))
       ELSE <<Head(s)>> \o CollapseWs(Tail(s))

\* the nodes below the nodes ids, in document order
RECURSIVE Desc(_, _)
Desc(h, ids) ==
  IF ids = <<>> THEN <<>>
  ELSE <<Head(ids)>> \o Desc(h, h[Head(ids)].kids) \o Desc(h, Tail(ids))

Descendants(h, n) == Desc(h, h[n].kids)

InSeq(x, s) == \E i \in 1..Len(s) : s[i] = x

\* root.find_all(name), name one of tags
find_all(h, root, tags) ==
  SelectSeq(Descendants(h, root), LAMBDA n : h[n].tag \in tags)

\* root.find_all(True)
find_all_tags(h, root) == SelectSeq(Descendants(h, root), LAMBDA n : IsTag(h, n))

AllStrings(h, n) == SelectSeq(Descendants(h, n), LAMBDA m : IsString(h, m))

\* tag.get_text(" ", strip=True)
RECURSIVE JoinStripped(_, _)
JoinStripped(h, ids) ==
  IF ids = <<>> THEN <<>>
  ELSE LET t == Strip(h[Head(ids)].text)
           rest == JoinStripped(h, Tail(ids))
       IN IF t = <<>> THEN rest
          ELSE IF rest = <<>> THEN t
          ELSE t \o <<" ">> \o rest

get_text_stripped(h, n) == JoinStripped(h, AllStrings(h, n))

\* tag.get_text()
RECURSIVE JoinTexts(_, _)
JoinTexts(h, ids) ==
  IF ids = <<>> THEN <<>> ELSE h[Head(ids)].text \o JoinTexts(h, Tail(ids))

get_text(h, n) == JoinTexts(h, AllStrings(h, n))

is_empty_or_nbsp(text) ==
  Strip([i \in 1..Len(text) |-> IF text[i] = "nbsp" THEN " " ELSE text[i]]) = <<>>

(* ---- the tree operations of BeautifulSoup ---- *)
IndexOf(s, x) == CHOOSE i \in 1..Len(s) : s[i] = x

Splice(s, i, new) == SubSeq(s, 1, i - 1) \o new \o SubSeq(s, i + 1, Len(s))

RECURSIVE SetParents(_, _, _)
SetParents(h, ids, par) ==
  IF ids = <<>> THEN h
  ELSE SetParents([h EXCEPT ![Head(ids)].parent = par], Tail(ids), par)

\* element.extract()
extract(h, n) ==
  IF h[n].parent = 0 THEN h
  ELSE LET par == h[n].parent
       IN [h EXCEPT ![par].kids = Splice(@, IndexOf(@, n), <<>>),
                    ![n].parent = 0]

\* element.replace_with(new...), the new nodes being in no tree
replace_with(h, n, new) ==
  LET par == h[n].parent
      h1 == [h EXCEPT ![par].kids = Splice(@, IndexOf(@, n), new),
                      ![n].parent = 0]
  IN SetParents(h1, new, par)

\* tag.unwrap()
unwrap(h, n) ==
  LET ks == h[n].kids
  IN replace_with([h EXCEPT ![n].kids = <<>>], n, ks)

\* tag.decompose(): the element leaves the tree and is destroyed with
\* everything below it
RECURSIVE Destroy(_, _)
Destroy(h, ids) ==
  IF ids = <<>> THEN h
  ELSE Destroy([h EXCEPT ![Head(ids)].kids = <<>>, ![Head(ids)].parent = 0],
               Tail(ids))

decompose(h, n) == Destroy(extract(h, n), <<n>> \o Descendants(h, n))

\* tag.clear()
clear(h, n) == SetParents([h EXCEPT ![n].kids = <<>>], h[n].kids, 0)

\* tag.append(child), child a node of the heap
append(h, n, child) ==
  LET h1 == extract(h, child)
  IN [h1 EXCEPT ![n].kids = Append(@, child), ![child].parent = n]

RECURSIVE AppendAll(_, _, _)
AppendAll(h, n, ids) ==
  IF ids = <<>> THEN h ELSE AppendAll(append(h, n, Head(ids)), n, Tail(ids))

\* soup.new_string(text) / soup.new_tag(name): the new node is Len(h) + 1
new_string(h, text) == Append(h, TextNode(text, 0))
new_tag(h, name) == Append(h, ElemNode(name, NoAttrs, 0))

\* The idiom of the paragraph, list item and heading passes:
\*   inner_html = el.decode_contents()
\*   normalized_inner = re.sub(r"\s+", " ", inner_html).strip()
\*   new_children = BeautifulSoup(normalized_inner, HTML_PARSER)
\*   el.clear(); for child in list(new_children.body.contents): el.append(child)
Reparse(h, n) ==
  LET normalized_inner == StripToks(CollapseWsToks(decode_contents(h, n)))
      nb == Len(h) + 1
      h1 == BeautifulSoup(h, normalized_inner)
  IN AppendAll(clear(h1, n), n, h1[nb].kids)

(* ------------------------------------------------------------------ *)
(* clean_html: the body of each pass, for one element of its loop      *)
(* ------------------------------------------------------------------ *)
SHORTCODE_PATTERNS == {"[table=", "[highlight-block=", "[cta="}

\* src.split("/")[-1]
LastSegment(s) ==
  LET S == {i \in 1..Len(s) : s[i] = "/"}
  IN IF S = {} THEN s ELSE SubSeq(s, Max(S) + 1, Len(s))

\* name.split("?")[0]
BeforeQuery(s) ==
  LET S == {i \in 1..Len(s) : s[i] = "?"}
  IN IF S = {} THEN s ELSE SubSeq(s, 1, Min(S) - 1)

\* faulty variant of the label: the query is left on the file name
ImageLabel_KeepQuery(alt, src) ==
  LET filename == IF src # <<>> THEN LastSegment(src) ELSE <<>>
      a == Strip(alt)
      f == Strip(filename)
  IN IF a # <<>> /\ f # <<>> THEN a \o <<" ", "/", " ">> \o f
     ELSE IF a # <<>> THEN a
     ELSE IF f # <<>> THEN f
     ELSE <<"IMAGE">>

\* the label of the placeholder of an image
ImageLabel(alt, src) ==
  LET filename == IF src # <<>> THEN BeforeQuery(LastSegment(src)) ELSE <<>>
      a == Strip(alt)
      f == Strip(filename)
  IN IF a # <<>> /\ f # <<>> THEN a \o <<" ", "/", " ">> \o f
     ELSE IF a # <<>> THEN a
     ELSE IF f # <<>> THEN f
     ELSE <<"IMAGE">>

\* IMAGES -> PLACEHOLDERS
ImgStep(h, img) ==
  LET label == ImageLabel(Attr(h[img], "alt"), Attr(h[img], "src"))
      placeholder_text == <<"[IMAGE:", " ">> \o label \o <<"]">>
  IN replace_with(new_string(h, placeholder_text), img, <<Len(h) + 1>>)

\* str.lower(), over the tokens of the model
Lower(s) ==
  [i \in 1..Len(s) |->
     CASE s[i] = "BOLD" -> "bold"
       [] s[i] = "Font-Weight" -> "font-weight"
       [] OTHER -> s[i]]

\* SPANS -> STRONG / EM / U OR PLAIN
SpanStep(h, span) ==
  LET style == Lower(Attr(h[span], "style"))
      retag(name) == [h EXCEPT ![span].tag = name,
                               ![span].attrs = DelAttr(@, "style")]
  IN IF Contains(style, "font-weight")
          /\ (Contains(style, "700") \/ Contains(style, "bold"))
       THEN retag("strong")
     ELSE IF Contains(style, "font-style") /\ Contains(style, "italic")
       THEN retag("em")
     ELSE IF Contains(style, "text-decoration") /\ Contains(style, "underline")
       THEN retag("u")
     ELSE unwrap(h, span)

\* <br> -> SPACE
BrStep(h, br) == replace_with(new_string(h, <<" ">>), br, <<Len(h) + 1>>)

HasShortcode(text) == \E pattern \in SHORTCODE_PATTERNS : Contains(text, pattern)

\* PARAGRAPHS
PStep(h, p) ==
  LET text == get_text_stripped(h, p)
  IN IF is_empty_or_nbsp(text) THEN decompose(h, p)
     ELSE IF HasShortcode(text)
       THEN append(new_string(clear(h, p), CollapseWs(text)), p, Len(h) + 1)
     ELSE Reparse(h, p)

\* LIST ITEMS: basic normalisation
LiStep(h, li) ==
  LET text == get_text_stripped(h, li)
      children == h[li].kids
      h1 == IF Len(children) = 1 /\ h[children[1]].tag = "p"
            THEN unwrap(h, children[1]) ELSE h
  IN IF is_empty_or_nbsp(text) THEN decompose(h, li) ELSE Reparse(h1, li)

\* HEADINGS
HStep(h, hd) ==
  IF is_empty_or_nbsp(get_text_stripped(h, hd)) THEN decompose(h, hd)
  ELSE Reparse(h, hd)

Quotes == {"dquote", "squote"}

\* the last index of the run of white space that starts at index j
RECURSIVE WsRunEnd(_, _)
WsRunEnd(s, j) ==
  IF j + 1 <= Len(s) /\ s[j + 1] \in WS THEN WsRunEnd(s, j + 1) ELSE j

\* re.search(r'([.!?]["\']?\s+)', text): the indexes where a match starts
SentenceEnds(s) ==
  {i \in 1..Len(s) :
     /\ s[i] \in {".", "!", "?"}
     /\ \/ i + 1 <= Len(s) /\ s[i + 1] \in WS
        \/ i + 2 <= Len(s) /\ s[i + 1] \in Quotes /\ s[i + 2] \in WS}

\* m.end() of the leftmost match
SplitIdx(s) ==
  LET i == Min(SentenceEnds(s))
  IN IF i + 2 <= Len(s) /\ s[i + 1] \in Quotes /\ s[i + 2] \in WS
     THEN WsRunEnd(s, i + 2) ELSE WsRunEnd(s, i + 1)

\* element.insert_after(new), new in no tree
insert_after(h, n, new) ==
  LET par == h[n].parent
      ks == h[par].kids
      i == IndexOf(ks, n)
  IN [h EXCEPT ![par].kids = SubSeq(ks, 1, i) \o <<new>> \o SubSeq(ks, i + 1, Len(ks)),
               ![new].parent = par]

\* FIX: prevent whole-paragraph bold when only first sentence should be
BoldFixStep(h, p) ==
  LET element_children == SelectSeq(h[p].kids, LAMBDA c : IsTag(h, c))
  IN IF Len(element_children) = 1 /\ h[element_children[1]].tag \in {"strong", "b"}
     THEN LET strong == element_children[1]
              full_text == get_text(h, strong)
          IN IF SentenceEnds(full_text) # {}
             THEN LET split_idx == SplitIdx(full_text)
                      first == SubSeq(full_text, 1, split_idx)
                      rest == SubSeq(full_text, split_idx + 1, Len(full_text))
                      h1 == append(new_string(clear(h, strong), first), strong, Len(h) + 1)
                  IN IF Strip(rest) # <<>>
                     THEN insert_after(new_string(h1, rest), strong, Len(h1) + 1)
                     ELSE h1
             ELSE h
     ELSE h

RECURSIVE UnwrapAll(_, _)
UnwrapAll(h, ids) ==
  IF ids = <<>> THEN h ELSE UnwrapAll(unwrap(h, Head(ids)), Tail(ids))

\* UNWRAP any nested <p> INSIDE LIST ITEMS
UnwrapPStep(h, li) == UnwrapAll(h, find_all(h, li, {"p"}))

Letters == {"a", "b", "c", "d", "A"}

\* FIX: Prevent bold + text being split (NBSP glue): children[i], children[i+1]
RECURSIVE NbspFrom(_, _, _)
NbspFrom(h, children, i) ==
  IF i >= Len(children) THEN h
  ELSE LET child == children[i]
           nxt == children[i + 1]
       IN IF /\ IsTag(h, child) /\ h[child].tag \in {"b", "strong"}
             /\ IsString(h, nxt)
             /\ Strip(h[nxt].text) # <<>> /\ Head(Strip(h[nxt].text)) \in Letters
          THEN NbspFrom(replace_with(new_string(h, <<"nbsp">> \o h[nxt].text),
                                     nxt, <<Len(h) + 1>>),
                        children, i + 1)
          ELSE NbspFrom(h, children, i + 1)

NbspStep(h, li) == NbspFrom(h, h[li].kids, 1)

\* tag.string: the single string below a chain of only children, or 0 (None)
RECURSIVE StringOf(_, _)
StringOf(h, n) ==
  IF Len(h[n].kids) # 1 THEN 0
  ELSE IF IsString(h, h[n].kids[1]) THEN h[n].kids[1]
  ELSE StringOf(h, h[n].kids[1])

Punctuation == {",", ";", ":", "."}

\* re.match(r"\s*([,;:.])(\s*)(.*)", txt): the index of the punctuation
PunctIdx(s) == Len(s) - Len(LStrip(s)) + 1

\* faulty variant of the pattern: only a comma is matched
PunctMatches_CommaOnly(s) == PunctIdx(s) <= Len(s) /\ s[PunctIdx(s)] = ","

PunctMatches(s) == PunctIdx(s) <= Len(s) /\ s[PunctIdx(s)] \in Punctuation

\* (.*) stops at a line end
RECURSIVE UpToNewline(_)
UpToNewline(s) ==
  IF s = <<>> \/ Head(s) = "\n" THEN <<>> ELSE <<Head(s)>> \o UpToNewline(Tail(s))

\* MOVE PUNCTUATION AFTER <b>/<strong> INSIDE THE TAG (IN <li>)
RECURSIVE PunctFrom(_, _, _)
PunctFrom(h, children, i) ==
  IF i >= Len(children) THEN h
  ELSE LET child == children[i]
           nxt == children[i + 1]
           txt == h[nxt].text
           txt_norm == [k \in 1..Len(txt) |-> IF txt[k] = "nbsp" THEN " " ELSE txt[k]]
       IN IF /\ IsTag(h, child) /\ h[child].tag \in {"b", "strong"}
             /\ IsString(h, nxt) /\ PunctMatches(txt_norm)
          THEN LET pi == PunctIdx(txt_norm)
                   punct == <<txt_norm[pi]>>
                   after == SubSeq(txt_norm, pi + 1, Len(txt_norm))
                   spaces == SubSeq(after, 1, Len(after) - Len(LStrip(after)))
                   rest == UpToNewline(LStrip(after))
                   str == StringOf(h, child)
                   h1 == IF str # 0
                         THEN replace_with(new_string(h, h[str].text \o punct),
                                           str, <<Len(h) + 1>>)
                         ELSE append(new_string(h, punct), child, Len(h) + 1)
                   new_txt == spaces \o rest
                   h2 == IF new_txt # <<>>
                         THEN replace_with(new_string(h1, new_txt), nxt, <<Len(h1) + 1>>)
                         ELSE extract(h1, nxt)
               IN PunctFrom(h2, children, i + 1)
          ELSE PunctFrom(h, children, i + 1)

PunctStep(h, li) == PunctFrom(h, h[li].kids, 1)

\* faulty variant of the final pass: list items are left as they are
WrapStep_Skip(h, li) == h

\* faulty variant of the final pass: an item that holds a nested list is
\* left as it is
WrapStep_SkipNested(h, li) ==
  LET contents == h[li].kids
  IN IF contents = <<>> THEN h
     ELSE IF \E k \in 1..Len(contents) : h[contents[k]].tag \in {"p", "ul", "ol"} THEN h
     ELSE LET p == Len(h) + 1
              h1 == AppendAll(new_tag(h, "p"), p, contents)
          IN append(clear(h1, li), li, p)

\* FINAL: wrap each <li> contents in a single <p>
WrapStep(h, li) ==
  LET contents == h[li].kids
  IN IF contents = <<>> THEN h
     ELSE IF Len(contents) = 1 /\ h[contents[1]].tag = "p" THEN h
     ELSE LET p == Len(h) + 1
              h1 == AppendAll(new_tag(h, "p"), p, contents)
          IN append(clear(h1, li), li, p)

iframe_safe_attrs ==
  {"src", "width", "height", "allow", "allowfullscreen", "frameborder",
   "title", "loading", "referrerpolicy"}

\* faulty variant of the attribute pass: an iframe keeps every attribute
KeptAttrs_IframeUntouched(tag, attrs) ==
  IF tag = "iframe" THEN attrs
  ELSE [k \in (DOMAIN attrs) \cap {"href", "src"} |-> attrs[k]]

\* the attributes the last pass leaves on a tag
KeptAttrs(tag, attrs) ==
  LET keep == IF tag = "iframe" THEN iframe_safe_attrs ELSE {"href", "src"}
  IN [k \in (DOMAIN attrs) \cap keep |-> attrs[k]]

\* ATTRIBUTES (keep link + iframe attrs)
AttrsStep(h, tag) == [h EXCEPT ![tag].attrs = KeptAttrs(h[tag].tag, @)]

(* ------------------------------------------------------------------ *)
(* clean_html: the passes                                              *)
(* ------------------------------------------------------------------ *)
HeadingTags == {"h1", "h2", "h3", "h4", "h5", "h6"}

\* the loops of clean_html, in the order of the source
Passes ==
  <<"img", "span", "br", "p", "li", "h1", "h2", "h3", "h4", "h5", "h6",
    "boldfix", "unwrap_p", "nbsp", "punct", "wrap", "attrs">>

\* the list a loop iterates over: the result of its find_all, taken when
\* the loop starts
SnapshotFor(h, pass) ==
  IF pass = "attrs" THEN find_all_tags(h, Body)
  ELSE IF pass = "boldfix" THEN find_all(h, Body, {"p"})
  ELSE IF pass \in {"unwrap_p", "nbsp", "punct", "wrap"} THEN find_all(h, Body, {"li"})
  ELSE find_all(h, Body, {pass})

\* arguments that are not strings (None, a number): one token that is not
\* markup stands for the object
NonStrArgs ==
  { <<[t |-> "object", v |-> "None", attrs |-> NoAttrs]>>,
    <<[t |-> "object", v |-> "0", attrs |-> NoAttrs]>> }

\* isinstance(raw_html, str)
IsStr(x) == \A i \in 1..Len(x) : x[i].t # "object"

\* the body of the loop of a pass, for the element n of its find_all
StepOf(pass, h, n) ==
  CASE pass = "img" -> ImgStep(h, n)
    [] pass = "span" -> SpanStep(h, n)
    [] pass = "br" -> BrStep(h, n)
    [] pass = "p" -> PStep(h, n)
    [] pass = "li" -> LiStep(h, n)
    [] pass \in HeadingTags -> HStep(h, n)
    [] pass = "boldfix" -> BoldFixStep(h, n)
    [] pass = "unwrap_p" -> UnwrapPStep(h, n)
    [] pass = "nbsp" -> NbspStep(h, n)
    [] pass = "punct" -> PunctStep(h, n)
    [] pass = "wrap" -> WrapStep(h, n)
    [] pass = "attrs" -> AttrsStep(h, n)

\* one loop over the elements ids its find_all returned
RECURSIVE RunLoop(_, _, _)
RunLoop(h, pass, ids) ==
  IF ids = <<>> THEN h
  ELSE LET h1 == StepOf(pass, h, Head(ids))
       IN IF Len(h1) = 0 THEN h1 ELSE RunLoop(h1, pass, Tail(ids))

\* the loops from the i-th on, each over the find_all it takes when it starts
RECURSIVE RunPasses(_, _)
RunPasses(h, i) ==
  IF i > Len(Passes) THEN h
  ELSE LET h1 == RunLoop(h, Passes[i], SnapshotFor(h, Passes[i]))
       IN IF Len(h1) = 0 THEN h1 ELSE RunPasses(h1, i + 1)

\* clean_html(raw_html) as a function of its argument
clean_html(markup) ==
  IF ~IsStr(markup) \/ StripToks(markup) = <<>> THEN <<>>
  ELSE decode_contents(RunPasses(BeautifulSoup(<<>>, markup), 1), Body)

(* ------------------------------------------------------------------ *)
(* Inputs of clean_html                                                *)
(* ------------------------------------------------------------------ *)
A1(name, value) == name :> value

HtmlBlockSet ==
  { Chars(<<" ">>),
    Elem("p", A1("class", <<"x">>), Chars(<<"a", " ", "\n", "b">>)),
    Elem("p", NoAttrs, Chars(<<" ", "nbsp">>)),
    Elem("h2", A1("style", <<"s">>), Chars(<<"a">>)),
    Elem("h3", NoAttrs, Chars(<<" ">>)),
    Elem("div", A1("id", <<"d">>), Elem("p", NoAttrs, Chars(<<"a">>))),
    Elem("ul", NoAttrs,
         Elem("li", NoAttrs, Chars(<<"a">>)) \o Elem("li", NoAttrs, Chars(<<" ">>))
           \o Elem("li", A1("class", <<"x">>), Chars(<<"b">>))),
    Elem("ul", NoAttrs,
         Elem("li", NoAttrs,
              Chars(<<"a">>)
                \o Elem("ul", NoAttrs,
                        Elem("li", A1("class", <<"x">>), Chars(<<"b">>))
                          \o Elem("li", NoAttrs, Chars(<<" ">>))))),
    Elem("ol", NoAttrs,
         Elem("li", NoAttrs, Elem("p", A1("class", <<"x">>), Chars(<<"a">>)))),
    Elem("ul", NoAttrs,
         Elem("li", NoAttrs,
              Elem("strong", NoAttrs, Chars(<<"a">>)) \o Chars(<<",", " ", "b">>))
           \o Elem("li", NoAttrs,
                   Elem("b", NoAttrs, Chars(<<"a">>)) \o Chars(<<" ", "b">>))),
    Elem("p", NoAttrs,
         Elem("span", A1("style", <<"font-weight", ":", "700">>) @@ A1("class", <<"x">>),
              Chars(<<"a">>))
           \o Elem("span", A1("style", <<"font-style", ":", "italic">>), Chars(<<"b">>))
           \o Elem("span", A1("style", <<"text-decoration", ":", "underline">>),
                   Chars(<<"c">>))
           \o Elem("span", A1("class", <<"x">>), Chars(<<"d">>))),
    Elem("p", NoAttrs,
         Elem("strong", NoAttrs, Chars(<<"a", ".", " ", "b">>))),
    Elem("p", NoAttrs,
         Chars(<<"a">>) \o <<Op("br", NoAttrs)>>
           \o <<Op("img", A1("alt", <<"d">>) @@ A1("src", <<"c", "/", "b", "?", "a">>))>>),
    Elem("p", NoAttrs,
         Elem("a", A1("href", <<"u">>) @@ A1("target", <<"t">>), Chars(<<"a">>))),
    Elem("p", NoAttrs,
         Chars(<<"[cta=", "a", " ">>) \o Elem("em", NoAttrs, Chars(<<"b">>))),
    Elem("iframe", A1("src", <<"u">>) @@ A1("width", <<"1">>) @@ A1("class", <<"x">>),
         <<>>) }

\* one-block documents:
\*  - a paragraph with an image whose alt and src attributes are each absent
\*    or one of the values of AltSet, SrcSet;
\*  - a paragraph with a span whose style is absent or one of StyleSet;
\*  - a paragraph, a heading and a list item holding a shortcode marker and
\*    inline markup;
\*  - lists whose items hold a single <p>, alone or with white space around;
\*  - paragraphs whose only element child is a <strong>/<b> holding a
\*    sentence end and inline markup, and list items whose <strong>/<b> is
\*    followed by punctuation: one or two characters, with white space,
\*    alone, after an empty <b>, below an <em>, in a <p> before a nested list
BlockInputs ==
  LET AltSet == { <<>>, <<" ">>, <<"d">>, <<" ", "d", " ">> }
      SrcSet == { <<>>, <<"b">>, <<"c", "/", "b">>, <<"c", "/">>,
                  <<"c", "/", "b", "?", "a">>, <<"c", "?", "a", "/", "b">>,
                  <<"?", "a">>, <<"c", "/", " ">> }
      ImgAttrSet ==
        {a @@ b : a \in {NoAttrs} \cup {A1("alt", v) : v \in AltSet},
                  b \in {NoAttrs} \cup {A1("src", v) : v \in SrcSet}}
      ImgInputs ==
        {Elem("p", NoAttrs, Chars(<<"a">>) \o <<Op("img", attrs)>>)
           : attrs \in ImgAttrSet}
      StyleSet ==
        { <<"font-weight", ":", "700">>, <<"font-weight", ":", "800">>,
          <<"font-weight", ":", "900">>, <<"font-weight", ":", "400">>,
          <<"font-weight", ":", "bold">>, <<"Font-Weight", ":", "BOLD">>,
          <<"font-style", ":", "italic">>, <<"text-decoration", ":", "underline">>,
          <<"font-weight", ":", "400", ";", "font-style", ":", "italic">>,
          <<"font-weight", ":", "700", ";", "font-style", ":", "italic">>,
          <<"font-style", ":", "italic", ";", "text-decoration", ":", "underline">>,
          <<"color", ":", "red">> }
      SpanAttrSet == {A1("class", <<"x">>)} \cup {A1("style", v) : v \in StyleSet}
      SpanInputs ==
        {Elem("p", NoAttrs,
              Chars(<<"a">>) \o Elem("span", attrs, Elem("em", NoAttrs, Chars(<<"b">>))))
           : attrs \in SpanAttrSet}
      inner(m) == Chars(<<m, "a", " ", "\n">>) \o Elem("em", NoAttrs, Chars(<<"b">>))
                    \o Chars(<<"]">>)
      ShortcodeInputs ==
        UNION {{Elem("p", NoAttrs, inner(m)), Elem("h2", NoAttrs, inner(m)),
                Elem("ul", NoAttrs, Elem("li", NoAttrs, inner(m)))}
                 : m \in SHORTCODE_PATTERNS}
      para == Elem("p", A1("class", <<"x">>),
                   Chars(<<"a", " ">>) \o Elem("b", NoAttrs, Chars(<<"b">>)))
      ItemInputs ==
        { Elem("ul", NoAttrs, Elem("li", NoAttrs, para)),
          Elem("ul", NoAttrs,
               Elem("li", NoAttrs, Chars(<<" ">>) \o para \o Chars(<<"\n">>))
                 \o Elem("li", NoAttrs, Chars(<<"c">>))),
          Elem("ol", NoAttrs,
               Elem("li", NoAttrs, Elem("p", NoAttrs, Chars(<<"a">>)))
                 \o Elem("li", NoAttrs,
                         Elem("p", NoAttrs, Chars(<<"a">>))
                           \o Elem("p", NoAttrs, Chars(<<"b">>)))) }
      strongA == Elem("strong", NoAttrs, Chars(<<"a">>))
      item(content) == Elem("ul", NoAttrs, Elem("li", NoAttrs, content))
      BoldInputs ==
        { Elem("p", NoAttrs,
               Elem("strong", NoAttrs,
                    Chars(<<"a", ".", " ">>) \o Elem("em", NoAttrs, Chars(<<"b">>)))),
          Elem("p", NoAttrs,
               Elem("b", NoAttrs,
                    Elem("a", A1("href", <<"u">>), Chars(<<"a">>))
                      \o Chars(<<"!", " ", "b">>))),
          item(strongA \o Chars(<<".", ",", " ", "b">>)),
          item(Elem("b", NoAttrs, Chars(<<"a">>)) \o Chars(<<" ", ";", " ", "b">>)),
          item(Elem("strong", NoAttrs, Elem("em", NoAttrs, Chars(<<"a">>)))
                 \o Chars(<<":", "b">>)),
          item(strongA \o Chars(<<".">>)),
          item(strongA \o Chars(<<",", "b">>) \o Elem("b", NoAttrs, <<>>)
                 \o Chars(<<";", "c">>)),
          item(Elem("em", NoAttrs, strongA \o Chars(<<",", " ", "b">>))),
          item(Elem("p", NoAttrs, strongA \o Chars(<<",", " ", "b">>))
                 \o Elem("ol", NoAttrs,
                         Elem("li", NoAttrs, Elem("p", NoAttrs, Chars(<<"c">>)))
                           \o Elem("li", NoAttrs,
                                   Elem("b", NoAttrs, Chars(<<"d">>))
                                     \o Chars(<<":", " ", "a">>)))) }
  IN ImgInputs \cup SpanInputs \cup ShortcodeInputs \cup ItemInputs \cup BoldInputs

\* the documents: up to MaxBlocks blocks, one after the other, and the
\* one-block documents above
HtmlInputs ==
  {Join(bs) : bs \in SeqsUpTo(HtmlBlockSet, MaxBlocks)} \cup BlockInputs

(* ------------------------------------------------------------------ *)
(* clean_html                                                          *)
(* ------------------------------------------------------------------ *)
InitClean ==
  /\ prog = "clean"
  /\ pc = "start"
  /\ raw_html \in HtmlInputs \cup NonStrArgs
  /\ soup = <<>> /\ snapshot = <<>> /\ result = <<>>
  /\ pos = 0
  /\ in_list = FALSE /\ list_type = NoneVal
  /\ lines = <<>> /\ output = <<>> /\ list_items = <<>>
  /\ paras = <<>> /\ html = <<>> /\ markdown = <<>>
  /\ list_buffer = <<>> /\ md_list_buffer = <<>>
  /\ RestIdle

\* faulty variant of the early return: the argument is returned as it is
CleanEmpty_ReturnsInput ==
  /\ prog = "clean" /\ pc = "start"
  /\ ~IsStr(raw_html) \/ StripToks(raw_html) = <<>>
  /\ result' = raw_html
  /\ pc' = "done"
  /\ UNCHANGED <<prog, pos, raw_html, soup, snapshot, listVars, txtVars, docxVars, restVars>>

\* if not isinstance(raw_html, str) or not raw_html.strip(): return ""
CleanEmpty ==
  /\ prog = "clean" /\ pc = "start"
  /\ ~IsStr(raw_html) \/ StripToks(raw_html) = <<>>
  /\ result' = <<>>
  /\ pc' = "done"
  /\ UNCHANGED <<prog, pos, raw_html, soup, snapshot, listVars, txtVars, docxVars, restVars>>

\* soup = BeautifulSoup(raw_html, HTML_PARSER), and the first find_all
CleanParse ==
  /\ prog = "clean" /\ pc = "start"
  /\ IsStr(raw_html) /\ StripToks(raw_html) # <<>>
  /\ soup' = BeautifulSoup(<<>>, raw_html)
  /\ pc' = Passes[1]
  /\ snapshot' = SnapshotFor(soup', Passes[1])
  /\ pos' = 0
  /\ UNCHANGED <<prog, raw_html, result, listVars, txtVars, docxVars, restVars>>

\* the element the running loop is at
Cur == snapshot[pos + 1]

\* one iteration of the loop of a pass
CleanAt(pass) ==
  /\ prog = "clean" /\ pc = pass
  /\ pos < Len(snapshot)
  /\ pos' = pos + 1
  /\ UNCHANGED <<prog, pc, raw_html, snapshot, result, listVars, txtVars, docxVars, restVars>>

CleanImg == CleanAt("img") /\ soup' = ImgStep(soup, Cur)
CleanSpan == CleanAt("span") /\ soup' = SpanStep(soup, Cur)
CleanBr == CleanAt("br") /\ soup' = BrStep(soup, Cur)
CleanP == CleanAt("p") /\ soup' = PStep(soup, Cur)
CleanLi == CleanAt("li") /\ soup' = LiStep(soup, Cur)
CleanHeading == \E level \in HeadingTags : CleanAt(level) /\ soup' = HStep(soup, Cur)
CleanBoldFix == CleanAt("boldfix") /\ soup' = BoldFixStep(soup, Cur)
CleanUnwrapP == CleanAt("unwrap_p") /\ soup' = UnwrapPStep(soup, Cur)
CleanNbsp == CleanAt("nbsp") /\ soup' = NbspStep(soup, Cur)
CleanPunct == CleanAt("punct") /\ soup' = PunctStep(soup, Cur)
CleanWrap == CleanAt("wrap") /\ soup' = WrapStep(soup, Cur)
CleanAttrs == CleanAt("attrs") /\ soup' = AttrsStep(soup, Cur)

\* a loop ends and the next one takes its find_all
CleanPassEnd ==
  /\ prog = "clean"
  /\ \E i \in 1..(Len(Passes) - 1) :
        /\ pc = Passes[i]
        /\ pc' = Passes[i + 1]
        /\ snapshot' = SnapshotFor(soup, Passes[i + 1])
  /\ pos = Len(snapshot)
  /\ pos' = 0
  /\ UNCHANGED <<prog, raw_html, soup, result, listVars, txtVars, docxVars, restVars>>

\* return soup.body.decode_contents()
CleanReturn ==
  /\ prog = "clean" /\ pc = "attrs"
  /\ pos = Len(snapshot)
  /\ result' = decode_contents(soup, Body)
  /\ pc' = "done"
  /\ UNCHANGED <<prog, pos, raw_html, soup, snapshot, listVars, txtVars, docxVars, restVars>>

NextClean ==
  \/ CleanEmpty \/ CleanParse \/ CleanImg \/ CleanSpan \/ CleanBr \/ CleanP
  \/ CleanLi \/ CleanHeading \/ CleanBoldFix \/ CleanUnwrapP \/ CleanNbsp
  \/ CleanPunct \/ CleanWrap \/ CleanAttrs \/ CleanPassEnd \/ CleanReturn

Init == InitTxt \/ InitDocx \/ InitClean

Next == NextTxt \/ NextDocx \/ NextClean

\* one specification for each function
SpecTxt == InitTxt /\ [][NextTxt]_vars
SpecDocx == InitDocx /\ [][NextDocx]_vars
SpecClean == InitClean /\ [][NextClean]_vars

\* the two list coalescers
InitLists == InitTxt \/ InitDocx
NextLists == NextTxt \/ NextDocx
SpecLists == InitLists /\ [][NextLists]_vars

\* the two functions that discard blank list items
InitItems == InitClean \/ InitDocx
NextItems == NextClean \/ NextDocx
SpecItems == InitItems /\ [][NextItems]_vars

(* ------------------------------------------------------------------ *)
(* fetch_data_in_batches                                               *)
(* ------------------------------------------------------------------ *)
\* dates are day numbers 0..MaxDate; batch_days ranges over 1..MaxBatchDays
MaxDate == 6
MaxBatchDays == 3

\* the locals of the three normalizers, unused by the other programs
frameVars == <<pos, listVars, txtVars, docxVars, cleanVars>>

FrameIdle ==
  /\ pos = 0
  /\ in_list = FALSE /\ list_type = NoneVal
  /\ lines = <<>> /\ output = <<>> /\ list_items = <<>>
  /\ paras = <<>> /\ html = <<>> /\ markdown = <<>>
  /\ list_buffer = <<>> /\ md_list_buffer = <<>>
  /\ raw_html = <<>> /\ soup = <<>> /\ snapshot = <<>> /\ result = <<>>

\* what fetch_gsc_data hands back: a frame with rows, a frame without rows,
\* or (the query raised, the handler showed the error) an empty frame
Outcomes == {"rows", "empty", "failed"}

\* all_data = []; current_date = start_date; batch_count = 0
InitBatch ==
  /\ prog = "batch"
  /\ pc = "loop"
  /\ start_date \in 0..MaxDate
  /\ end_date \in 0..MaxDate
  /\ batch_days \in 1..MaxBatchDays
  /\ current_date = start_date
  /\ batch_count = 0
  /\ requests = <<>>
  /\ all_data = <<>>
  /\ FrameIdle
  /\ other = NoFrame
  /\ AppIdle

\* total_days = (end_date - start_date).days
total_days == end_date - start_date

\* faulty variant of batch_end: the last batch is not cut at end_date
batch_end_Unclamped == current_date + (batch_days - 1)

\* batch_end = min(current_date + timedelta(days=batch_days - 1), end_date)
batch_end == Min({current_date + (batch_days - 1), end_date})

\* one turn of the loop: the progress fraction is computed, the batch is
\* requested from fetch_gsc_data, a non-empty frame is kept, and the loop
\* moves to the day after batch_end
BatchFetch(outcome) ==
  /\ prog = "batch" /\ pc = "loop"
  /\ current_date <= end_date
  /\ total_days # 0
  /\ batch_count' = batch_count + 1
  /\ requests' = Append(requests, [from |-> current_date, to |-> batch_end,
                                   outcome |-> outcome])
  /\ all_data' = IF outcome = "rows"
                 THEN Append(all_data, <<current_date, batch_end>>)
                 ELSE all_data
  /\ current_date' = batch_end + 1
  /\ UNCHANGED <<prog, pc, start_date, end_date, batch_days, frameVars, other,
                 appVars>>

\* progress = min((current_date - start_date).days / total_days, 1.0) with
\* total_days = 0: ZeroDivisionError, raised before the batch is requested;
\* neither fetch_data_in_batches nor its caller handles it
BatchRaise ==
  /\ prog = "batch" /\ pc = "loop"
  /\ current_date <= end_date
  /\ total_days = 0
  /\ batch_count' = batch_count + 1
  /\ pc' = "raised"
  /\ UNCHANGED <<prog, start_date, end_date, batch_days, current_date,
                 requests, all_data, frameVars, other, appVars>>

\* the loop is over: the kept frames are combined and returned (an empty
\* frame when none was kept)
BatchReturn ==
  /\ prog = "batch" /\ pc = "loop"
  /\ current_date > end_date
  /\ pc' = "done"
  /\ UNCHANGED <<prog, frameVars, restVars>>

NextBatch ==
  \/ \E outcome \in Outcomes : BatchFetch(outcome)
  \/ BatchRaise
  \/ BatchReturn

SpecBatch == InitBatch /\ [][NextBatch]_vars

\* the call runs on: Python executes the next statement of the one thread
SpecBatchFair == SpecBatch /\ WF_vars(NextBatch)

(* ------------------------------------------------------------------ *)
(* The Shopify-to-Contentful page: session state and its events        *)
(* ------------------------------------------------------------------ *)
\* what the user can have in the text area: nothing, or one of the blocks
AppInputs == {<<>>} \cup HtmlBlockSet

\* the right column of one run of the script: the preview when
\* st.session_state.cleaned_html is truthy, the hint otherwise
Shown(ss) == IF ss.cleaned_html # <<>> THEN "preview" ELSE "info"

\* first run of the script: both keys are set to ""
InitApp ==
  /\ prog = "app"
  /\ session_state = [raw_html |-> <<>>, cleaned_html |-> <<>>]
  /\ pc = Shown(session_state)
  /\ clicked = <<>>
  /\ FrameIdle
  /\ other = NoFrame
  /\ BatchIdle

\* st.session_state.cleaned_html = clean_html(st.session_state.raw_html)
run_clean ==
  [session_state EXCEPT !.cleaned_html = clean_html(session_state.raw_html)]

\* faulty variant of clear_all: the output is left as it is
clear_all_KeepsOutput == [session_state EXCEPT !.raw_html = <<>>]

\* st.session_state.raw_html = ""; st.session_state.cleaned_html = ""
clear_all == [raw_html |-> <<>>, cleaned_html |-> <<>>]

\* the user changes the text area (key="raw_html"); the script runs again
EditRaw(v) ==
  /\ prog = "app"
  /\ v # session_state.raw_html
  /\ session_state' = [session_state EXCEPT !.raw_html = v]
  /\ pc' = Shown(session_state')
  /\ UNCHANGED <<prog, clicked, frameVars, other, batchVars>>

\* the button "Clean HTML": the callback, then the script runs again
ClickClean ==
  /\ prog = "app"
  /\ session_state' = run_clean
  /\ clicked' = <<session_state.raw_html>>
  /\ pc' = Shown(session_state')
  /\ UNCHANGED <<prog, frameVars, other, batchVars>>

\* the button "Clear input & output": the callback, then the script runs
\* again
ClickClear ==
  /\ prog = "app"
  /\ session_state' = clear_all
  /\ pc' = Shown(session_state')
  /\ UNCHANGED <<prog, clicked, frameVars, other, batchVars>>

NextApp ==
  \/ \E v \in AppInputs : EditRaw(v)
  \/ ClickClean
  \/ ClickClear

SpecApp == InitApp /\ [][NextApp]_vars

(* ------------------------------------------------------------------ *)
(* The three normalizers as functions of their argument                *)
(* ------------------------------------------------------------------ *)
\* what the branch of a line that is not a list item appends to output
TxtAppended(line, src) ==
  LET branch == TxtBranch(line)
  IN CASE branch = "blank" -> <<>>
       [] branch = "title" -> <<Out("elem", "h", "1", Strip(Tail(line)), src)>>
       [] branch = "meta" -> <<Out("comment", "", "", Strip(line), src)>>
       [] branch = "heading" ->
            IF MatchHeading(line)
            THEN <<Out("elem", "h", line[2], Strip(SubSeq(line, 4, Len(line))), src)>>
            ELSE <<>>
       [] branch = "cta" ->
            <<Out("elem", "p", "", <<"<a>", "FIND OUT MORE", "</a>">>, src)>>
       [] branch = "related" ->
            IF MarkerMatches(line, "[Related article:") # {}
            THEN <<Out("elem", "p", "",
                       <<"<em>", "Related article: ">>
                         \o FirstGroup(line, "[Related article:")
                         \o <<"</em>">>, src)>>
            ELSE <<>>
       [] branch = "carousel" ->
            IF MarkerMatches(line, "[product-carousel") # {}
            THEN <<Out("elem", "div", "", <<>>, src)>>
            ELSE <<>>
       [] OTHER -> <<Out("elem", "p", "", line, src)>>

\* the locals of plain_text_to_html before its first line
TxtEntry ==
  [output |-> <<>>, in_list |-> FALSE, list_type |-> NoneVal, list_items |-> <<>>]

\* one turn of the loop of plain_text_to_html on the locals st
TxtBody(st, line, src) ==
  LET branch == TxtBranch(line)
      flushed == st.output \o TxtFlushOut(st.list_items, st.list_type)
  IN IF branch \in {"ul", "ol"}
     THEN LET item == Item(IF branch = "ul" THEN SubBullet(line)
                           ELSE SubNumbered(line), src)
          IN IF ~st.in_list
             THEN [output |-> flushed, in_list |-> TRUE, list_type |-> branch,
                   list_items |-> <<item>>]
             ELSE [st EXCEPT !.list_items = Append(@, item)]
     ELSE IF st.list_items # <<>>
          THEN [output |-> flushed \o TxtAppended(line, src), in_list |-> FALSE,
                list_type |-> NoneVal, list_items |-> <<>>]
          ELSE [st EXCEPT !.output = flushed \o TxtAppended(line, src)]

\* the locals of plain_text_to_html(text) after k lines
RECURSIVE TxtLocals(_, _)
TxtLocals(text, k) ==
  IF k = 0 THEN TxtEntry
  ELSE TxtBody(TxtLocals(text, k - 1), Strip(text[k]), k)

\* plain_text_to_html(text): the loop, the last flush_list(), the output
plain_text_to_html(text) ==
  LET st == TxtLocals(text, Len(text))
  IN st.output \o TxtFlushOut(st.list_items, st.list_type)

\* the locals of docx_to_html before its first paragraph
DocxEntry ==
  [html |-> <<>>, markdown |-> <<>>, in_list |-> FALSE, list_type |-> NoneVal,
   list_buffer |-> <<>>, md_list_buffer |-> <<>>]

\* flush_list() on the locals st, then hs appended to html and ms to markdown
DocxFlushed(st, hs, ms) ==
  [st EXCEPT !.html = @ \o DocxFlushOut(st.list_buffer, st.list_type) \o hs,
             !.markdown = @ \o st.md_list_buffer \o ms,
             !.in_list = FALSE,
             !.list_buffer = <<>>,
             !.md_list_buffer = <<>>]

\* one turn of the loop of docx_to_html on the locals st ("raise" is not a
\* turn: the call ends there)
DocxBody(st, para, src) ==
  LET branch == DocxBranch(para)
      chunks == format_paragraph(para, para.style \in DOMAIN HEADING_STYLES)
  IN CASE branch = "blank" -> DocxFlushed(st, <<>>, <<>>)
       [] branch = "heading" ->
            LET lvl == HEADING_STYLES[para.style]
            IN DocxFlushed(st, ChunkElems("elem", "h", lvl, chunks, src),
                           ChunkElems("md", "#", lvl, chunks, src))
       [] branch = "list" ->
            LET kind == IF HasNumbered(para.style) THEN "ol" ELSE "ul"
            IN [st EXCEPT !.list_type = kind,
                          !.in_list = TRUE,
                          !.list_buffer = @ \o ChunkItems(chunks, src),
                          !.md_list_buffer =
                             @ \o ChunkElems("md", IF kind = "ol" THEN "1." ELSE "-",
                                             "", chunks, src)]
       [] branch = "p" ->
            DocxFlushed(st, ChunkElems("elem", "p", "", chunks, src),
                        ChunkElems("md", "", "", chunks, src))
       [] OTHER -> st

\* the locals of docx_to_html(doc) after k paragraphs
RECURSIVE DocxLocals(_, _)
DocxLocals(doc, k) ==
  IF k = 0 THEN DocxEntry
  ELSE DocxBody(DocxLocals(doc, k - 1), doc[k], k)

\* the first paragraph of doc whose style lookup raises, 0 when none does
FirstRaise(doc) ==
  LET bad == {i \in 1..Len(doc) : DocxBranch(doc[i]) = "raise"}
  IN IF bad = {} THEN 0 ELSE Min(bad)

\* docx_to_html(doc): the pair (html, markdown), or the exception
docx_to_html(doc) ==
  IF FirstRaise(doc) # 0 THEN [pc |-> "raised", value |-> <<>>]
  ELSE LET st == DocxFlushed(DocxLocals(doc, Len(doc)), <<>>, <<>>)
       IN [pc |-> "done", value |-> <<st.html, st.markdown>>]

(* ------------------------------------------------------------------ *)
(* Two invocations in one process                                      *)
(* ------------------------------------------------------------------ *)
\* the locals of the invocation that is running
Frame ==
  [prog |-> prog, pc |-> pc, pos |-> pos, in_list |-> in_list,
   list_type |-> list_type, lines |-> lines, output |-> output,
   list_items |-> list_items, paras |-> paras, html |-> html,
   markdown |-> markdown, list_buffer |-> list_buffer,
   md_list_buffer |-> md_list_buffer, raw_html |-> raw_html, soup |-> soup,
   snapshot |-> snapshot, result |-> result]

\* the locals of a call fn(arg) at its entry
EntryFrame(fn, arg) ==
  [prog |-> fn, pc |-> IF fn = "clean" THEN "start" ELSE "loop", pos |-> 0,
   in_list |-> FALSE, list_type |-> NoneVal,
   lines |-> IF fn = "txt" THEN arg ELSE <<>>, output |-> <<>>,
   list_items |-> <<>>,
   paras |-> IF fn = "docx" THEN arg ELSE <<>>, html |-> <<>>,
   markdown |-> <<>>, list_buffer |-> <<>>, md_list_buffer |-> <<>>,
   raw_html |-> IF fn = "clean" THEN arg ELSE <<>>, soup |-> <<>>,
   snapshot |-> <<>>, result |-> <<>>]

\* the calls of the two-invocation runs: texts and documents that take
\* every branch of the loops, with lists of both kinds; markup that is
\* blank, and markup with every kind of block
PairCalls ==
  LET text1 == << <<"-", " ", "a">>, <<" ", "*", " ", " ", "b", " ">>,
                  <<"Title:", " ", "a">>, <<"Status:", "a">>,
                  <<"Heading ", "2", ":", " ", "a">>, <<"[FIND OUT MORE]">>,
                  <<"[Related article:", " ", "a", "]">>,
                  <<"[product-carousel", " ", "7", "]">>,
                  <<"1", ".", " ", "c">>, <<"1", "2", ".", "nbsp", "d">>,
                  <<"a">>, <<>> >>
      text2 == << <<"1", ".", " ", "c">>, <<"-", " ", "a">>, <<"a">> >>
      doc1 == << Para("List Bullet", TRUE, <<rA>>),
                 Para("Numbered List", TRUE, <<rB>>),
                 Para("Heading 2", FALSE, <<rB, rNone>>),
                 Para("Normal", FALSE, <<rABr, rIU>>),
                 Para("Normal", FALSE, <<>>),
                 Para("List Bullet", TRUE, <<rABr, rB>>) >>
      doc2 == << Para("List Number", TRUE, <<rA, rWs>>),
                 Para(NoneVal, FALSE, <<rA>>) >>
      markup1 == Chars(<<" ">>)
      markup2 ==
        Elem("h2", A1("style", <<"s">>), Chars(<<"a">>))
          \o Elem("ul", NoAttrs,
                  Elem("li", NoAttrs,
                       Elem("strong", NoAttrs, Chars(<<"a">>))
                         \o Chars(<<",", " ", "b">>))
                    \o Elem("li", NoAttrs, Chars(<<" ">>)))
          \o Elem("p", NoAttrs,
                  Elem("span", A1("style", <<"font-weight", ":", "700">>),
                       Chars(<<"a">>))
                    \o <<Op("br", NoAttrs)>>
                    \o <<Op("img", A1("alt", <<"d">>))>>)
      markup3 ==
        Elem("ol", NoAttrs,
             Elem("li", NoAttrs, Elem("p", A1("class", <<"x">>), Chars(<<"a">>))))
          \o Elem("p", NoAttrs, Elem("strong", NoAttrs, Chars(<<"a", ".", " ", "b">>)))
  IN {<<"txt", text1>>, <<"txt", text2>>, <<"docx", doc1>>, <<"docx", doc2>>,
      <<"clean", markup1>>, <<"clean", markup2>>, <<"clean", markup3>>}

\* the running invocation starts as f
Entered(f) ==
  /\ prog = f.prog /\ pc = f.pc /\ pos = f.pos
  /\ in_list = f.in_list /\ list_type = f.list_type
  /\ lines = f.lines /\ output = f.output /\ list_items = f.list_items
  /\ paras = f.paras /\ html = f.html /\ markdown = f.markdown
  /\ list_buffer = f.list_buffer /\ md_list_buffer = f.md_list_buffer
  /\ raw_html = f.raw_html /\ soup = f.soup /\ snapshot = f.snapshot
  /\ result = f.result

\* two calls have been made, one is running and the other is suspended
InitPair ==
  /\ \E a \in PairCalls, b \in PairCalls :
       /\ Entered(EntryFrame(a[1], a[2]))
       /\ other = EntryFrame(b[1], b[2])
  /\ BatchIdle
  /\ AppIdle

\* the invocation suspended as f runs on
Resumed(f) ==
  /\ prog' = f.prog /\ pc' = f.pc /\ pos' = f.pos
  /\ in_list' = f.in_list /\ list_type' = f.list_type
  /\ lines' = f.lines /\ output' = f.output /\ list_items' = f.list_items
  /\ paras' = f.paras /\ html' = f.html /\ markdown' = f.markdown
  /\ list_buffer' = f.list_buffer /\ md_list_buffer' = f.md_list_buffer
  /\ raw_html' = f.raw_html /\ soup' = f.soup /\ snapshot' = f.snapshot
  /\ result' = f.result

\* faulty variant of the switch: the list buffers are one object shared by
\* the invocations, as a module-level list would be
Switch_SharedBuffers ==
  /\ other.prog # "none"
  /\ other' = Frame
  /\ Resumed([other EXCEPT !.list_items = list_items,
                           !.list_buffer = list_buffer,
                           !.md_list_buffer = md_list_buffer])
  /\ UNCHANGED <<batchVars, appVars>>

\* the scheduler suspends the running invocation and resumes the other one:
\* every local of the three functions lives in the frame of its call
Switch ==
  /\ other.prog # "none"
  /\ other' = Frame
  /\ Resumed(other)
  /\ UNCHANGED <<batchVars, appVars>>

NextPair == NextTxt \/ NextDocx \/ NextClean \/ Switch

SpecPair == InitPair /\ [][NextPair]_vars

(* ------------------------------------------------------------------ *)
(* Views shared by the properties of the two list coalescers           *)
(* ------------------------------------------------------------------ *)
\* the HTML emitted so far, and the items buffered for the open list
OutSeq == IF prog = "docx" THEN html ELSE output
Pending == IF prog = "docx" THEN list_buffer ELSE list_items
NumBlocks == IF prog = "docx" THEN Len(paras) ELSE Len(lines)

\* "ul" / "ol" when input block i is taken as a list item of that kind,
\* "other" when it is not a list item
BlockKind(i) ==
  IF prog = "docx"
  THEN IF DocxBranch(paras[i]) = "list"
       THEN (IF HasNumbered(paras[i].style) THEN "ol" ELSE "ul")
       ELSE "other"
  ELSE IF TxtBranch(Strip(lines[i])) \in {"ul", "ol"}
       THEN TxtBranch(Strip(lines[i]))
       ELSE "other"

IsLi(e) == e.k = "elem" /\ e.tag = "li"
LiIdx(o) == {j \in 1..Len(o) : IsLi(o[j])}

\* the index of the list tag that opens the list an <li> stands in
ListStart(o, j) == Max({k \in 1..j : o[k].k = "open"})

\* element j is an <li> inside a list that has been opened and closed
InClosedList(o, j) ==
  \E a \in 1..(j - 1), b \in (j + 1)..Len(o) :
     /\ o[a].k = "open" /\ o[b].k = "close" /\ o[a].tag = o[b].tag
     /\ \A m \in (a + 1)..(b - 1) : IsLi(o[m])

Running == prog \in {"txt", "docx"}
Finished == Running /\ pc = "done"

(* ------------------------------------------------------------------ *)
(* C1                                                                  *)
(* ------------------------------------------------------------------ *)
\* C1 (as claimed): no emitted <ul>/<ol> holds items that came from both
\* bulleted and numbered input blocks: two <li> of one list always come
\* from blocks of the same kind.
C1_NoMixedList ==
  Running =>
    \A i, j \in LiIdx(OutSeq) :
       ListStart(OutSeq, i) = ListStart(OutSeq, j)
         => BlockKind(OutSeq[i].src) = BlockKind(OutSeq[j].src)

(* ------------------------------------------------------------------ *)
(* C2                                                                  *)
(* ------------------------------------------------------------------ *)
\* the block just processed is not a list item, or the document has ended
AfterBreak ==
  /\ Running
  /\ \/ pc = "done"
     \/ pc = "loop" /\ pos > 0 /\ BlockKind(pos) = "other"

\* C2: immediately after a non-list-item block (heading, paragraph, marker
\* line, blank line or paragraph) or the end of the document, the item
\* buffer is empty and every list item read so far stands in the output
\* inside a list that has been closed.
C2_FlushedAfterBreak ==
  AfterBreak =>
    /\ Pending = <<>>
    /\ \A i \in 1..pos : BlockKind(i) # "other"
          => \E j \in LiIdx(OutSeq) : OutSeq[j].src = i
    /\ \A j \in LiIdx(OutSeq) : InClosedList(OutSeq, j)

\* a paragraph has just closed a list of two items
C2_Witness ==
  /\ prog = "txt" /\ pc = "loop" /\ pos = 3
  /\ BlockKind(1) = "ul" /\ BlockKind(2) = "ul"
  /\ TxtBranch(Strip(lines[3])) = "p"
  /\ Cardinality(LiIdx(output)) = 2

(* ------------------------------------------------------------------ *)
(* C3                                                                  *)
(* ------------------------------------------------------------------ *)
\* the input block of each emitted element (list tags carry none)
HasSrc(o) == {j \in 1..Len(o) : o[j].src # 0}

\* C3: the emitted elements stand in the order of the input blocks they
\* came from, a list stands before the block that ended it, the items of a
\* list keep the order of the input, and so do the buffered items, which
\* all come after everything emitted.
C3_OrderPreserved ==
  Running =>
    /\ \A i, j \in HasSrc(OutSeq) : i < j =>
          /\ OutSeq[i].src <= OutSeq[j].src
          /\ prog = "txt" => OutSeq[i].src < OutSeq[j].src
    /\ \A i, j \in 1..Len(Pending) : i < j => Pending[i].src <= Pending[j].src
    /\ \A i \in HasSrc(OutSeq), j \in 1..Len(Pending) :
          OutSeq[i].src < Pending[j].src
    /\ \A j \in LiIdx(OutSeq) : j > 1 /\ ~IsLi(OutSeq[j - 1])
          => OutSeq[j - 1].k = "open"

\* heading, then a list of two items, then a paragraph, all emitted
C3_Witness ==
  /\ prog = "docx" /\ pc = "done" /\ Len(paras) = 3
  /\ DocxBranch(paras[1]) = "heading"
  /\ DocxBranch(paras[2]) = "list" /\ Len(format_paragraph(paras[2], FALSE)) = 2
  /\ DocxBranch(paras[3]) = "p"
  /\ Cardinality(LiIdx(html)) = 2

(* ------------------------------------------------------------------ *)
(* C4                                                                  *)
(* ------------------------------------------------------------------ *)
\* lines a..b are a maximal run of list-item lines of one kind
MaximalRun(a, b) ==
  /\ a <= b
  /\ BlockKind(a) # "other"
  /\ \A i \in a..b : BlockKind(i) = BlockKind(a)
  /\ a > 1 => BlockKind(a - 1) # BlockKind(a)
  /\ b < NumBlocks => BlockKind(b + 1) # BlockKind(a)

\* output[k] opens a list whose items are exactly the lines a..b
ListOfRun(o, k, a, b) ==
  /\ o[k].k = "open"
  /\ k + (b - a) + 2 <= Len(o)
  /\ \A i \in a..b : IsLi(o[k + 1 + i - a]) /\ o[k + 1 + i - a].src = i
  /\ o[k + (b - a) + 2].k = "close"

\* C4 (as claimed): plain_text_to_html turns every maximal run of n list
\* item lines of one kind into exactly one list of exactly n items.
C4_OneListPerRun ==
  (prog = "txt" /\ pc = "done") =>
    \A a, b \in 1..Len(lines) :
       MaximalRun(a, b) =>
          Cardinality({k \in 1..Len(output) : ListOfRun(output, k, a, b)}) = 1

(* ------------------------------------------------------------------ *)
(* C5                                                                  *)
(* ------------------------------------------------------------------ *)
ItemsOf(o, i) == {j \in LiIdx(o) : o[j].src = i}

\* C5 (as claimed): every non-blank list paragraph contributes exactly one
\* <li>, whatever runs and line breaks it holds.
C5_OneItemPerParagraph ==
  (prog = "docx" /\ pc = "done") =>
    \A i \in 1..Len(paras) :
       BlockKind(i) # "other" => Cardinality(ItemsOf(html, i)) = 1

\* the runs of a paragraph that carry a line break
BreakRuns(para) == {k \in 1..Len(para.runs) : para.runs[k].br}

\* some text follows the last line break of the paragraph
TextAfterBreaks(para) ==
  \E k \in 1..Len(para.runs) :
     /\ para.runs[k].text # <<>>
     /\ \A m \in BreakRuns(para) : m < k

ExpectedItems(para) ==
  Cardinality(BreakRuns(para)) + (IF TextAfterBreaks(para) THEN 1 ELSE 0)

\* C5 (amended): every non-blank list paragraph contributes one <li> per
\* run that carries a line break, plus one when text follows the last
\* break: at least one item, exactly one when no run carries a break; all
\* of them stand in the same list.
C5_OneItemPerChunk ==
  (prog = "docx" /\ pc = "done") =>
    \A i \in 1..Len(paras) :
       BlockKind(i) # "other" =>
          /\ Cardinality(ItemsOf(html, i)) = ExpectedItems(paras[i])
          /\ Cardinality(ItemsOf(html, i)) >= 1
          /\ BreakRuns(paras[i]) = {} => Cardinality(ItemsOf(html, i)) = 1
          /\ \A j, k \in ItemsOf(html, i) : ListStart(html, j) = ListStart(html, k)

\* a list paragraph with a line break has produced two items of a list
\* that also holds the item of the paragraph before it
C5_Witness ==
  /\ prog = "docx" /\ pc = "done" /\ Len(paras) >= 2
  /\ BlockKind(1) = "ul" /\ BreakRuns(paras[1]) = {}
  /\ BlockKind(2) = "ul" /\ BreakRuns(paras[2]) # {}
  /\ Cardinality(ItemsOf(html, 2)) = 2
  /\ Cardinality(LiIdx(html)) = 3

(* ------------------------------------------------------------------ *)
(* C6                                                                  *)
(* ------------------------------------------------------------------ *)
\* C6 (as claimed): no emitted <p>, heading or <li> has empty or
\* white-space-only content.
C6_NoBlankElement ==
  Running =>
    \A j \in 1..Len(OutSeq) :
       (OutSeq[j].k = "elem" /\ OutSeq[j].tag \in {"p", "h", "li"})
          => ~BlankMarkup(OutSeq[j].body)

(* ------------------------------------------------------------------ *)
(* Views of the tree clean_html returns                                *)
(* ------------------------------------------------------------------ *)
Cleaned == prog = "clean" /\ pc = "done" /\ soup # <<>>

\* the nodes of the tree that is serialised
OutNodes == IF soup = <<>> THEN <<>> ELSE Descendants(soup, Body)
OutTags == {OutNodes[i] : i \in {j \in 1..Len(OutNodes) : IsTag(soup, OutNodes[j])}}

Attached(h, n) == InSeq(n, Descendants(h, Body))

BlankNode(h, n) == is_empty_or_nbsp(get_text_stripped(h, n))

BlockTags == {"p", "li"} \cup HeadingTags

\* the tree as first parsed from the input
ParsedInput == BeautifulSoup(<<>>, raw_html)

(* ------------------------------------------------------------------ *)
(* C7                                                                  *)
(* ------------------------------------------------------------------ *)
\* C7 (as claimed): the output of clean_html holds no <p>, <li> or heading
\* whose visible text is empty or only white space or non-breaking spaces.
C7_NoBlankBlock ==
  Cleaned =>
    \A n \in OutTags : soup[n].tag \in BlockTags => ~BlankNode(soup, n)

(* ------------------------------------------------------------------ *)
(* C8                                                                  *)
(* ------------------------------------------------------------------ *)
LiKids(h, u) == SelectSeq(h[u].kids, LAMBDA k : h[k].tag = "li")

\* clean_html: where a blank <li> between two non-blank <li> of a list has
\* been discarded, the two are still items of that list, one after the other
C8_CleanKeepsList ==
  Cleaned =>
    \A u \in 1..Len(ParsedInput) :
       (ParsedInput[u].tag \in {"ul", "ol"} /\ Attached(soup, u)) =>
          LET ks == LiKids(ParsedInput, u)
          IN \A i \in 2..(Len(ks) - 1) :
                (/\ BlankNode(ParsedInput, ks[i])
                 /\ ~BlankNode(ParsedInput, ks[i - 1])
                 /\ ~BlankNode(ParsedInput, ks[i + 1])
                 /\ ~Attached(soup, ks[i]))
                => \E j \in 1..(Len(LiKids(soup, u)) - 1) :
                      /\ LiKids(soup, u)[j] = ks[i - 1]
                      /\ LiKids(soup, u)[j + 1] = ks[i + 1]

\* paragraph i is blank, carries a numbering property and stands between
\* two list paragraphs
BlankItemBetween(i) ==
  /\ 1 < i /\ i < Len(paras)
  /\ DocxBranch(paras[i]) = "blank" /\ paras[i].numPr
  /\ BlockKind(i - 1) # "other" /\ BlockKind(i + 1) # "other"

\* C8 (as claimed): a discarded blank list item does not end the list: the
\* items before and after it stand in the same emitted list, in clean_html
\* and in docx_to_html.
C8_BlankItemKeepsList ==
  /\ C8_CleanKeepsList
  /\ (prog = "docx" /\ pc = "done") =>
       \A i \in 1..Len(paras) : BlankItemBetween(i) =>
          \A j \in ItemsOf(html, i - 1), k \in ItemsOf(html, i + 1) :
             ListStart(html, j) = ListStart(html, k)

\* C8 (amended): in clean_html a discarded blank list item does not end the
\* list; in docx_to_html a blank paragraph ends the open list also when it
\* carries a numbering property: the items before and after it stand in two
\* lists.
C8_BlankItemAmended ==
  /\ C8_CleanKeepsList
  /\ (prog = "docx" /\ pc = "done") =>
       \A i \in 1..Len(paras) : BlankItemBetween(i) =>
          \A j \in ItemsOf(html, i - 1), k \in ItemsOf(html, i + 1) :
             ListStart(html, j) < ListStart(html, k)

\* clean_html has discarded the blank middle item of a list of three
C8_Witness ==
  /\ Cleaned
  /\ \E u \in 1..Len(ParsedInput) :
        /\ ParsedInput[u].tag = "ul" /\ Attached(soup, u)
        /\ Len(LiKids(ParsedInput, u)) = 3
        /\ BlankNode(ParsedInput, LiKids(ParsedInput, u)[2])
        /\ LiKids(soup, u) = <<LiKids(ParsedInput, u)[1], LiKids(ParsedInput, u)[3]>>

(* ------------------------------------------------------------------ *)
(* C9                                                                  *)
(* ------------------------------------------------------------------ *)
AllowedTags ==
  {"p", "strong", "b", "em", "i", "u", "ul", "ol", "li", "a", "img", "br",
   "iframe"} \cup HeadingTags

\* C9 (as claimed): the output of clean_html holds no element whose tag is
\* outside the allowed set.
C9_OnlyAllowedTags ==
  Cleaned => \A n \in OutTags : soup[n].tag \in AllowedTags

(* ------------------------------------------------------------------ *)
(* C10                                                                 *)
(* ------------------------------------------------------------------ *)
AllowedAttrs(tag) ==
  IF tag = "iframe"
  THEN {"src", "width", "height", "allow", "allowfullscreen", "frameborder",
        "title", "loading", "referrerpolicy"}
  ELSE {"href", "src"}

\* C10: in the output of clean_html every attribute of an <iframe> is one
\* of the nine embed attributes and every attribute of another element is
\* href or src, in the tree and in the markup returned.
C10_OnlySafeAttrs ==
  (prog = "clean" /\ pc = "done") =>
    /\ \A n \in OutTags : DOMAIN soup[n].attrs \subseteq AllowedAttrs(soup[n].tag)
    /\ \A i \in 1..Len(result) :
          result[i].t = "open"
            => DOMAIN result[i].attrs \subseteq AllowedAttrs(result[i].v)

\* the input held a span with a class that was retagged, an <iframe> with a
\* class, and a link with a target; the output holds all three elements
C10_Witness ==
  /\ Cleaned
  /\ \E i \in 1..Len(raw_html) :
        raw_html[i].v = "span" /\ {"class", "style"} \subseteq DOMAIN raw_html[i].attrs
  /\ \E i \in 1..Len(raw_html) :
        raw_html[i].v = "iframe" /\ "class" \in DOMAIN raw_html[i].attrs
  /\ \E i \in 1..Len(result) : result[i] = Op("strong", NoAttrs)
  /\ \E i \in 1..Len(result) :
        result[i].v = "iframe" /\ DOMAIN result[i].attrs = {"src", "width"}

(* ------------------------------------------------------------------ *)
(* C11                                                                 *)
(* ------------------------------------------------------------------ *)
\* the function and the step-by-step run agree on what is returned
CleanAgrees == (prog = "clean" /\ pc = "done") => result = clean_html(raw_html)

\* C11 (as claimed): clean_html is idempotent: cleaning what clean_html
\* returned returns it unchanged.
C11_Idempotent ==
  (prog = "clean" /\ pc = "done") => clean_html(result) = result

(* ------------------------------------------------------------------ *)
(* C12                                                                 *)
(* ------------------------------------------------------------------ *)
\* the <img> elements of the input, as parsed
InputImgs == {n \in 1..Len(ParsedInput) : ParsedInput[n].tag = "img"}

\* the part of s after its last "/"
AfterLastSlash(s) ==
  IF \E i \in 1..Len(s) : s[i] = "/"
  THEN LET i == CHOOSE k \in 1..Len(s) :
                   s[k] = "/" /\ \A m \in (k + 1)..Len(s) : s[m] # "/"
       IN SubSeq(s, i + 1, Len(s))
  ELSE s

\* the part of s before its first "?"
WithoutQuery(s) ==
  IF \E i \in 1..Len(s) : s[i] = "?"
  THEN LET i == CHOOSE k \in 1..Len(s) :
                   s[k] = "?" /\ \A m \in 1..(k - 1) : s[m] # "?"
       IN SubSeq(s, 1, i - 1)
  ELSE s

\* the placeholder the claim gives an image with these attributes
ClaimedPlaceholder(attrs) ==
  LET alt == Strip(IF "alt" \in DOMAIN attrs THEN attrs["alt"] ELSE <<>>)
      filename == Strip(WithoutQuery(AfterLastSlash(
                    IF "src" \in DOMAIN attrs THEN attrs["src"] ELSE <<>>)))
      label == CASE alt # <<>> /\ filename # <<>> -> alt \o <<" ", "/", " ">> \o filename
                 [] alt # <<>> /\ filename = <<>> -> alt
                 [] alt = <<>> /\ filename # <<>> -> filename
                 [] OTHER -> <<"IMAGE">>
  IN <<"[IMAGE:", " ">> \o label \o <<"]">>

\* the images loop has run and the spans loop has not started
AfterImages == prog = "clean" /\ pc = "span" /\ pos = 0

\* C12: when the images loop ends, every <img> of the input is out of the
\* tree and a string with the claimed placeholder stands where it stood; no
\* <img> is in the tree or in the markup returned from then on.
C12_ImagePlaceholder ==
  /\ AfterImages =>
       \A n \in InputImgs :
          LET par == ParsedInput[n].parent
              i == IndexOf(ParsedInput[par].kids, n)
              m == soup[par].kids[i]
          IN /\ soup[n].parent = 0
             /\ Len(soup[par].kids) = Len(ParsedInput[par].kids)
             /\ IsString(soup, m)
             /\ soup[m].text = ClaimedPlaceholder(ParsedInput[n].attrs)
  /\ (prog = "clean" /\ pc \notin {"start", "img"}) =>
       \A n \in 1..Len(soup) : soup[n].tag = "img" => ~Attached(soup, n)
  /\ (prog = "clean" /\ pc = "done") =>
       \A i \in 1..Len(result) : result[i].v # "img" \/ result[i].t = "char"

\* an image with an alt text and a src with a path and a query has been
\* replaced, and the placeholder is in the markup returned
C12_Witness ==
  /\ Cleaned
  /\ \E n \in InputImgs :
        /\ ParsedInput[n].attrs = A1("alt", <<"d">>) @@ A1("src", <<"c", "/", "b", "?", "a">>)
        /\ \E i \in 1..Len(result) :
              /\ i + 7 <= Len(result)
              /\ [k \in 1..8 |-> result[i + k - 1].v]
                   = <<"[IMAGE:", " ", "d", " ", "/", " ", "b", "]">>

(* ------------------------------------------------------------------ *)
(* C13                                                                 *)
(* ------------------------------------------------------------------ *)
InputSpans == {n \in 1..Len(ParsedInput) : ParsedInput[n].tag = "span"}

\* the tag the claim gives a span with this style; "" for a span it unwraps
ClaimedSpanTag(attrs) ==
  LET style == Lower(IF "style" \in DOMAIN attrs THEN attrs["style"] ELSE <<>>)
      has(tok) == \E i \in 1..Len(style) : style[i] = tok
  IN IF has("font-weight") /\ (has("700") \/ has("800") \/ has("900") \/ has("bold"))
       THEN "strong"
     ELSE IF has("font-style") /\ has("italic") THEN "em"
     ELSE IF has("text-decoration") /\ has("underline") THEN "u"
     ELSE ""

\* the spans loop has run and the <br> loop has not started
AfterSpans == prog = "clean" /\ pc = "br" /\ pos = 0

\* C13 (as claimed): when the spans loop ends, every span of the input
\* carries the tag its style calls for (font-weight 700, 800, 900 or bold:
\* strong; else italic: em; else underline: u) or, with no such style, is out
\* of the tree with its children in its place; no <span> is returned.
C13_SpanRetag ==
  /\ AfterSpans =>
       \A n \in InputSpans :
          LET tag == ClaimedSpanTag(ParsedInput[n].attrs)
          IN IF tag # ""
             THEN soup[n].tag = tag /\ Attached(soup, n)
                    /\ soup[n].kids = ParsedInput[n].kids
             ELSE ~Attached(soup, n)
                    /\ \A k \in 1..Len(ParsedInput[n].kids) :
                          Attached(soup, ParsedInput[n].kids[k])
  /\ (prog = "clean" /\ pc = "done") =>
       \A i \in 1..Len(result) : result[i].v # "span" \/ result[i].t = "char"

(* ------------------------------------------------------------------ *)
(* C14                                                                 *)
(* ------------------------------------------------------------------ *)
\* t occurs in s as a run of consecutive tokens
HasSub(s, t) ==
  \E i \in 0..(Len(s) - Len(t)) : SubSeq(s, i + 1, i + Len(t)) = t

\* the heading elements emitted for paragraph i
HeadingsOf(i) ==
  {j \in 1..Len(html) : html[j].k = "elem" /\ html[j].tag = "h" /\ html[j].src = i}

\* the paragraphs already converted that took the heading branch
DoneHeadings ==
  IF prog = "docx"
  THEN {i \in 1..pos : DocxBranch(paras[i]) = "heading"}
  ELSE {}

\* the runs of a paragraph that format_paragraph does not skip
KeptRuns(para) ==
  {k \in 1..Len(para.runs) : para.runs[k].text # <<>> \/ para.runs[k].br}

\* some heading element of paragraph i holds the text of run r inside tag
RunInside(i, r, tag) ==
  \E j \in HeadingsOf(i) :
     HasSub(html[j].body, <<"<" \o tag \o ">">> \o r.text \o <<"</" \o tag \o ">">>)

NoStrongInHeadings ==
  \A i \in DoneHeadings : \A j \in HeadingsOf(i) :
     \A k \in 1..Len(html[j].body) : html[j].body[k] \notin {"<strong>", "</strong>"}

\* C14 (as claimed): no heading element holds <strong>; every italic run of
\* a heading is emitted inside <em> and every underlined run inside <u>,
\* whatever its other flags.
C14_HeadingRuns ==
  /\ NoStrongInHeadings
  /\ \A i \in DoneHeadings : \A k \in KeptRuns(paras[i]) :
        LET r == paras[i].runs[k]
        IN /\ r.italic => RunInside(i, r, "em")
           /\ r.underline => RunInside(i, r, "u")

\* C14 (amended): no heading element holds <strong>; every italic run of a
\* heading is emitted inside <em>, and every underlined run that is not
\* italic inside <u>; an italic underlined run is emitted inside <em> only.
C14_HeadingRunsAmended ==
  /\ NoStrongInHeadings
  /\ \A i \in DoneHeadings : \A k \in KeptRuns(paras[i]) :
        LET r == paras[i].runs[k]
        IN /\ r.italic => RunInside(i, r, "em") /\ ~RunInside(i, r, "u")
           /\ (r.underline /\ ~r.italic) => RunInside(i, r, "u")

\* a heading with a bold, italic, underlined run has been emitted
C14_Witness ==
  /\ prog = "docx" /\ pc = "done"
  /\ \E i \in DoneHeadings : \E k \in KeptRuns(paras[i]) :
        /\ paras[i].runs[k].bold /\ paras[i].runs[k].italic /\ paras[i].runs[k].underline
        /\ RunInside(i, paras[i].runs[k], "em")

(* ------------------------------------------------------------------ *)
(* C15                                                                 *)
(* ------------------------------------------------------------------ *)
\* the strings emitted for paragraph i, in order: the bodies of its elements
\* in html, then of its items waiting in list_buffer
RECURSIVE BodiesOf(_, _)
BodiesOf(es, i) ==
  IF es = <<>> THEN <<>>
  ELSE (IF Head(es).k = "elem" /\ Head(es).src = i THEN <<Head(es).body>> ELSE <<>>)
         \o BodiesOf(Tail(es), i)

EmittedFor(i) == BodiesOf(html \o ItemsToLi(list_buffer), i)

\* the paragraphs already converted that were not blank
DoneParas ==
  IF prog = "docx"
  THEN {i \in 1..pos : DocxBranch(paras[i]) # "blank"}
  ELSE {}

\* the fragment the claim gives a run outside a heading
ClaimedPart(r) ==
  CASE r.bold /\ r.italic -> <<"<strong>", "<em>">> \o r.text \o <<"</em>", "</strong>">>
    [] r.bold /\ ~r.italic -> <<"<strong>">> \o r.text \o <<"</strong>">>
    [] ~r.bold /\ r.italic -> <<"<em>">> \o r.text \o <<"</em>">>
    [] ~r.bold /\ ~r.italic /\ r.underline -> <<"<u>">> \o r.text \o <<"</u>">>
    [] OTHER -> r.text

\* the fragments parts[lo..hi], joined in run order
RECURSIVE JoinParts(_, _, _)
JoinParts(parts, lo, hi) ==
  IF lo > hi THEN <<>> ELSE parts[lo] \o JoinParts(parts, lo + 1, hi)

\* the chunks of a paragraph whose runs give the fragments parts: one for
\* each run with a line break, holding the runs after the break before it up
\* to that run, and one for the runs after the last break when one of them
\* is kept; each trimmed
RECURSIVE ChunksFrom(_, _, _, _)
ChunksFrom(para, parts, lo, k) ==
  IF k > Len(para.runs)
  THEN IF \E m \in KeptRuns(para) : m >= lo
       THEN <<Strip(JoinParts(parts, lo, Len(para.runs)))>> ELSE <<>>
  ELSE IF para.runs[k].br
       THEN <<Strip(JoinParts(parts, lo, k))>> \o ChunksFrom(para, parts, k + 1, k + 1)
       ELSE ChunksFrom(para, parts, lo, k + 1)

\* the chunks of a paragraph when Part gives the fragment of a kept run
ChunksBy(para, Part(_)) ==
  ChunksFrom(para,
             [k \in 1..Len(para.runs) |->
                IF k \in KeptRuns(para) THEN Part(para.runs[k]) ELSE <<>>],
             1, 1)

\* C15: outside headings every run is emitted by the claimed precedence
\* (bold and italic: <strong><em>; bold: <strong>; italic: <em>; underline
\* alone: <u>; no flag: plain text), for each of the 8 flag combinations.
C15_RunPrecedence ==
  \A i \in DoneParas :
     DocxBranch(paras[i]) \in {"p", "list"} =>
        EmittedFor(i) = ChunksBy(paras[i], ClaimedPart)

\* the flag combinations of the runs of converted paragraphs and list items
FlagsSeen ==
  {<<paras[i].runs[k].bold, paras[i].runs[k].italic, paras[i].runs[k].underline>> :
     i \in {j \in DoneParas : DocxBranch(paras[j]) \in {"p", "list"}},
     k \in 1..2}

\* a paragraph with a bold, italic, underlined run has been emitted with
\* <strong><em> around it
C15_Witness ==
  /\ prog = "docx" /\ pc = "done" /\ Len(paras) = 1
  /\ DocxBranch(paras[1]) = "p" /\ Len(paras[1].runs) = 2
  /\ <<TRUE, TRUE, TRUE>> \in FlagsSeen
  /\ EmittedFor(1) = << <<"a", "<strong>", "<em>", "x", "</em>", "</strong>">> >>

(* ------------------------------------------------------------------ *)
(* C16                                                                 *)
(* ------------------------------------------------------------------ *)
IsHeadingPara(para) == para.style \in DOMAIN HEADING_STYLES

\* the elements emitted for paragraph i
ElemsOf(i) ==
  LET es == html \o ItemsToLi(list_buffer)
  IN {j \in 1..Len(es) : es[j].k = "elem" /\ es[j].src = i}

\* C16: the chunks of every converted paragraph are those cut at its runs
\* with a line break, the last one holding the runs after the last break,
\* the fragments in run order and trimmed; each chunk is one element, and
\* the elements of one paragraph share tag and level.
C16_ChunksAtBreaks ==
  \A i \in DoneParas :
     LET es == html \o ItemsToLi(list_buffer)
         chunks == ChunksBy(paras[i], LAMBDA r : FormatRun(r, IsHeadingPara(paras[i])))
     IN /\ EmittedFor(i) = chunks
        /\ Cardinality(ElemsOf(i)) = Len(chunks)
        /\ \A j \in ElemsOf(i) :
              /\ es[j].tag = CASE DocxBranch(paras[i]) = "heading" -> "h"
                               [] DocxBranch(paras[i]) = "list" -> "li"
                               [] OTHER -> "p"
              /\ es[j].lvl = IF DocxBranch(paras[i]) = "heading"
                             THEN HEADING_STYLES[paras[i].style] ELSE ""

\* a heading whose runs hold two line breaks has been emitted as three
\* headings of its level
C16_Witness ==
  /\ prog = "docx" /\ pc = "done" /\ Len(paras) = 1
  /\ DocxBranch(paras[1]) = "heading"
  /\ Cardinality(BreakRuns(paras[1])) = 2
  /\ Len(EmittedFor(1)) = 3
  /\ \A j \in ElemsOf(1) : html[j].tag = "h" /\ html[j].lvl = "2"

(* ------------------------------------------------------------------ *)
(* C17                                                                 *)
(* ------------------------------------------------------------------ *)
InlineTags == {"strong", "b", "em", "i", "u", "a", "span"}

\* the elements of the returned tree with one of the tags whose visible
\* text holds a shortcode marker
ShortcodeBlocks(tags) ==
  {n \in OutTags : soup[n].tag \in tags /\ HasShortcode(get_text_stripped(soup, n))}

\* no inline element stands below n
NoInlineBelow(n) ==
  \A k \in 1..Len(Descendants(soup, n)) :
     soup[Descendants(soup, n)[k]].tag \notin InlineTags

\* C17 (as claimed): in the output of clean_html no inline tag stands inside
\* a <p>, heading or <li> whose visible text holds a shortcode marker.
C17_ShortcodeFlattened ==
  Cleaned => \A n \in ShortcodeBlocks(BlockTags) : NoInlineBelow(n)

(* ------------------------------------------------------------------ *)
(* C18                                                                 *)
(* ------------------------------------------------------------------ *)
\* the list items of the parsed input h0 whose only element child is a <p>
SinglePItemsOf(h0) ==
  {n \in 1..Len(h0) :
     /\ h0[n].tag = "li"
     /\ LET els == SelectSeq(h0[n].kids, LAMBDA c : IsTag(h0, c))
        IN Len(els) = 1 /\ h0[els[1]].tag = "p"}

\* the <p> that is the element child of item n of the parsed input h0
ItemParagraphOf(h0, n) ==
  CHOOSE c \in 1..Len(h0) : InSeq(c, h0[n].kids) /\ h0[c].tag = "p"

NoParagraphBelow(n) ==
  \A k \in 1..Len(Descendants(soup, n)) : soup[Descendants(soup, n)[k]].tag # "p"

\* C18 (as claimed): a list item whose only element child in the input is a
\* <p> is returned without any <p> inside it.
C18_ItemUnwrapped ==
  Cleaned =>
     LET h0 == ParsedInput
     IN \A n \in SinglePItemsOf(h0) : Attached(soup, n) => NoParagraphBelow(n)

\* C18 (amended): the <p> of such an item is removed from the tree and,
\* when the final pass starts, no <p> stands inside the item; the final pass
\* then wraps the item's content, so the item is returned with exactly one
\* child: a new <p> without attributes, holding the content and no other <p>.
C18_ItemRewrapped ==
  /\ (prog = "clean" /\ pc = "wrap" /\ pos = 0) =>
        LET h0 == ParsedInput
        IN \A n \in SinglePItemsOf(h0) :
              Attached(soup, n) =>
                 NoParagraphBelow(n) /\ ~Attached(soup, ItemParagraphOf(h0, n))
  /\ Cleaned =>
        LET h0 == ParsedInput
        IN \A n \in SinglePItemsOf(h0) :
              Attached(soup, n) =>
                 /\ Len(soup[n].kids) = 1
                 /\ LET p == soup[n].kids[1]
                    IN /\ soup[p].tag = "p" /\ soup[p].attrs = NoAttrs
                       /\ p > Len(h0)
                       /\ soup[p].kids # <<>>
                       /\ NoParagraphBelow(p)
                 /\ ~Attached(soup, ItemParagraphOf(h0, n))

\* an item holding white space, a <p> with a class and inline markup has
\* been returned with one new <p> around the inline markup
C18_Witness ==
  /\ Cleaned
  /\ LET h0 == ParsedInput
     IN \E n \in SinglePItemsOf(h0) :
           /\ Attached(soup, n)
           /\ Len(h0[n].kids) = 3
           /\ "class" \in DOMAIN h0[ItemParagraphOf(h0, n)].attrs
           /\ Len(soup[n].kids) = 1 /\ soup[soup[n].kids[1]].tag = "p"
           /\ \E k \in 1..Len(soup[soup[n].kids[1]].kids) :
                 soup[soup[soup[n].kids[1]].kids[k]].tag = "b"

(* ------------------------------------------------------------------ *)
(* C19                                                                 *)
(* ------------------------------------------------------------------ *)
\* the argument of clean_html is not a string, or is empty or white space
BlankArg == ~IsStr(raw_html) \/ \A i \in 1..Len(raw_html) : IsWsTok(raw_html[i])

\* the text given to plain_text_to_html is empty or only white space and
\* line breaks
BlankText == \A i \in 1..Len(lines) : \A k \in 1..Len(lines[i]) : lines[i][k] \in WS

\* C19: on a blank argument clean_html can always take its next step, never
\* parses, and returns the empty string; on a blank text plain_text_to_html
\* can always take its next step, emits nothing and returns the empty string.
C19_BlankInput ==
  /\ (prog = "clean" /\ BlankArg) =>
        /\ soup = <<>> /\ result = <<>>
        /\ pc \in {"start", "done"}
        /\ pc = "start" => ENABLED CleanEmpty
  /\ (prog = "txt" /\ BlankText) =>
        /\ output = <<>> /\ list_items = <<>>
        /\ pc # "done" => ENABLED NextTxt

\* clean_html has returned on a white-space argument, or plain_text_to_html
\* on three blank lines
C19_Witness ==
  pc = "done" /\
    \/ prog = "clean" /\ raw_html = Chars(<<" ", " ">>) /\ result = <<>>
    \/ prog = "txt" /\ lines = << <<" ">>, <<>>, <<" ">> >> /\ output = <<>>

(* ------------------------------------------------------------------ *)
(* C20                                                                 *)
(* ------------------------------------------------------------------ *)
\* C20 (as claimed): a paragraph whose conversion raises does not end
\* docx_to_html: the call is never left by the exception, and when it
\* returns every other non-blank paragraph has its elements in the output.
C20_FailureIsolated ==
  prog = "docx" =>
     /\ pc # "raised"
     /\ pc = "done" =>
           \A i \in 1..Len(paras) :
              DocxBranch(paras[i]) \notin {"blank", "raise"} => ElemsOf(i) # {}

(* ------------------------------------------------------------------ *)
(* C22                                                                 *)
(* ------------------------------------------------------------------ *)
\* the elements a node of the tree h stands in
RECURSIVE Ancestors(_, _)
Ancestors(h, n) ==
  IF h[n].parent = 0 THEN {} ELSE {h[n].parent} \cup Ancestors(h, h[n].parent)

\* the inline formatting an element gives its content: bold, italic,
\* underline, link; for a span, each of the styles its declaration carries
InlineKinds(node) ==
  LET style == Lower(Attr(node, "style"))
      has(tok) == \E i \in 1..Len(style) : style[i] = tok
  IN CASE node.tag \in {"strong", "b"} -> {"bold"}
       [] node.tag \in {"em", "i"} -> {"italic"}
       [] node.tag = "u" -> {"underline"}
       [] node.tag = "a" -> {"link"}
       [] node.tag = "span" ->
            (IF has("font-weight") /\ (has("700") \/ has("bold")) THEN {"bold"} ELSE {})
              \cup (IF has("font-style") /\ has("italic") THEN {"italic"} ELSE {})
              \cup (IF has("text-decoration") /\ has("underline")
                    THEN {"underline"} ELSE {})
       [] OTHER -> {}

\* the formatting around the string n of the tree h
StylesAround(h, n) == UNION {InlineKinds(h[a]) : a \in Ancestors(h, n)}

\* the string n of the tree h stands in a <p>, heading or <li>, and none of
\* the blocks it stands in is blank or holds a shortcode marker
InKeptBlock(h, n) ==
  LET blocks == {a \in Ancestors(h, n) : h[a].tag \in BlockTags}
  IN /\ IsString(h, n)
     /\ blocks # {}
     /\ \A a \in blocks :
           ~BlankNode(h, a) /\ ~HasShortcode(get_text_stripped(h, a))

\* the strings of the returned tree
OutStrings == {OutNodes[i] : i \in {j \in 1..Len(OutNodes) : IsString(soup, OutNodes[j])}}

\* C22 (as claimed): every visible character of a non-blank block without
\* shortcode is returned inside the inline formatting (bold, italic,
\* underline, link) it stood in in the input.
C22_InlinePreserved ==
  Cleaned =>
    LET h0 == ParsedInput
    IN \A n \in 1..Len(h0) :
          InKeptBlock(h0, n) =>
             \A k \in 1..Len(h0[n].text) :
                h0[n].text[k] \notin WS =>
                   \E m \in OutStrings :
                      /\ Contains(soup[m].text, h0[n].text[k])
                      /\ StylesAround(h0, n) \subseteq StylesAround(soup, m)

(* ------------------------------------------------------------------ *)
(* C23                                                                 *)
(* ------------------------------------------------------------------ *)
\* the list items of the returned tree that have content
OutItems == {n \in OutTags : soup[n].tag = "li" /\ soup[n].kids # <<>>}

\* item n of the parsed input h0 holds a nested list
HoldsList(h0, n) ==
  \E k \in 1..Len(Descendants(h0, n)) : h0[Descendants(h0, n)[k]].tag \in {"ul", "ol"}

\* C23: in the tree clean_html serialises, every <li> that has content has
\* exactly one child, a <p> without attributes that holds all the content
\* of the item; what is returned is the serialisation of that tree.
C23_OneParagraphPerItem ==
  Cleaned =>
    /\ \A n \in OutItems :
          /\ Len(soup[n].kids) = 1
          /\ soup[soup[n].kids[1]].tag = "p"
          /\ soup[soup[n].kids[1]].attrs = NoAttrs
          /\ soup[soup[n].kids[1]].kids # <<>>
    /\ result = decode_contents(soup, Body)

\* an item that held a <p> and a nested list of two items is returned with
\* one <p> around its text and the list, and each item of the nested list
\* with one <p> of its own
C23_Witness ==
  /\ Cleaned
  /\ LET h0 == ParsedInput
     IN \E n \in OutItems :
           /\ n <= Len(h0) /\ h0[n].tag = "li" /\ HoldsList(h0, n)
           /\ \E k \in 1..Len(h0[n].kids) : h0[h0[n].kids[k]].tag = "p"
           /\ \E u \in OutTags :
                 /\ soup[u].tag = "ol" /\ soup[u].parent = soup[n].kids[1]
                 /\ Len(LiKids(soup, u)) = 2
                 /\ \A j \in 1..2 : LiKids(soup, u)[j] \in OutItems

(* ------------------------------------------------------------------ *)
(* C24                                                                 *)
(* ------------------------------------------------------------------ *)
\* the characters of a text that are not white space
NonWs(s) == SelectSeq(s, LAMBDA c : c \notin WS)

\* the text begins, after optional white space, with , ; : or .
StartsWithPunct(text) ==
  LET t == LStrip(text) IN t # <<>> /\ Head(t) \in {",", ";", ":", "."}

\* the text after its first character that is not white space
AfterFirst(text) == Tail(LStrip(text))

\* the node after n among the children of its parent, 0 when n is the last
NextSibling(h, n) ==
  LET ks == h[h[n].parent].kids
      i == IndexOf(ks, n)
  IN IF i < Len(ks) THEN ks[i + 1] ELSE 0

\* n is a <strong>/<b> of the tree h followed by a string that starts with
\* punctuation
BoldBeforePunct(h, n) ==
  /\ h[n].tag \in {"strong", "b"}
  /\ NextSibling(h, n) # 0
  /\ IsString(h, NextSibling(h, n))
  /\ StartsWithPunct(h[NextSibling(h, n)].text)

\* the <strong>/<b> of the returned tree that stand in a list item, and
\* those that are a child of the item or of its paragraph
BoldInItems ==
  {n \in OutTags : /\ soup[n].tag \in {"strong", "b"}
                   /\ \E a \in Ancestors(soup, n) : soup[a].tag = "li"}
BoldItemChildren ==
  {n \in BoldInItems :
     \/ soup[soup[n].parent].tag = "li"
     \/ soup[soup[n].parent].tag = "p" /\ soup[soup[soup[n].parent].parent].tag = "li"}

\* the list items of the input without image keep their visible characters
ItemTextKept ==
  LET h0 == ParsedInput
  IN \A n \in 1..Len(h0) :
        (/\ h0[n].tag = "li" /\ Attached(soup, n)
         /\ \A k \in 1..Len(Descendants(h0, n)) : h0[Descendants(h0, n)[k]].tag # "img")
        => NonWs(get_text(soup, n)) = NonWs(get_text(h0, n))

\* C24 (as claimed): in the output no <strong>/<b> inside a list item is
\* immediately followed by text that starts with , ; : or . and the visible
\* characters of every item are those of the input.
C24_PunctuationInside ==
  Cleaned =>
    /\ \A n \in BoldInItems : ~BoldBeforePunct(soup, n)
    /\ ItemTextKept

\* one step of the punctuation loop, on the item li: the first punctuation
\* character of the text after each <strong>/<b> child goes to the end of
\* the element, the text keeps what follows the character, and is taken out
\* when nothing follows; the visible characters of the item are unchanged
PunctMoved(li) ==
  /\ \A i \in 1..(Len(soup[li].kids) - 1) :
        LET s == soup[li].kids[i]
            t == soup[li].kids[i + 1]
        IN (IsTag(soup, s) /\ BoldBeforePunct(soup, s)) =>
              /\ get_text(soup', s) = get_text(soup, s) \o <<Head(LStrip(soup[t].text))>>
              /\ soup'[t].parent = 0
              /\ IF AfterFirst(soup[t].text) = <<>>
                 THEN NextSibling(soup', s) \notin {t} \cup ((Len(soup) + 1)..Len(soup'))
                 ELSE /\ NextSibling(soup', s) > Len(soup)
                      /\ NonWs(soup'[NextSibling(soup', s)].text)
                           = NonWs(AfterFirst(soup[t].text))
  /\ NonWs(get_text(soup', li)) = NonWs(get_text(soup, li))

\* C24 (amended): the punctuation loop moves one character, the first, of
\* the text after each <strong>/<b> child of a list item into the element;
\* in the output such an element is followed by text that starts with
\* punctuation only when its own text ends with punctuation (the moved
\* character was followed by another one); the visible characters of every
\* item are those of the input.
C24_OnePunctuationMoved ==
  /\ [](Cleaned =>
          /\ \A n \in BoldItemChildren :
                BoldBeforePunct(soup, n) =>
                   /\ get_text(soup, n) # <<>>
                   /\ get_text(soup, n)[Len(get_text(soup, n))] \in {",", ";", ":", "."}
          /\ ItemTextKept)
  /\ [][CleanPunct => PunctMoved(Cur)]_vars

\* an item whose <strong> was followed by "., b" is returned with "a." in
\* the <strong> and ", b" after it
C24_Witness ==
  /\ Cleaned
  /\ \E n \in BoldItemChildren :
        /\ get_text(soup, n) = <<"a", ".">>
        /\ BoldBeforePunct(soup, n)
        /\ soup[NextSibling(soup, n)].text = <<",", " ", "b">>

(* ------------------------------------------------------------------ *)
(* C25                                                                 *)
(* ------------------------------------------------------------------ *)
HeadingLevels == {"1", "2", "3", "4", "5", "6"}

\* C25 (as claimed): every heading element plain_text_to_html emits has a
\* level between 1 and 6, whatever digit stands in the "Heading <digit>:"
\* line.
C25_HeadingLevel ==
  prog = "txt" =>
    \A j \in 1..Len(output) :
       (output[j].k = "elem" /\ output[j].tag = "h") => output[j].lvl \in HeadingLevels

(* ------------------------------------------------------------------ *)
(* C26                                                                 *)
(* ------------------------------------------------------------------ *)
\* the index in html of its n-th heading, paragraph or list item
NthElem(n) ==
  CHOOSE j \in 1..Len(html) :
     /\ html[j].k = "elem"
     /\ Cardinality({i \in 1..j : html[i].k = "elem"}) = n

NumElems == Cardinality({j \in 1..Len(html) : html[j].k = "elem"})

\* the Markdown prefix that goes with an element of html: "#" (as many as
\* the level) for a heading, none for a paragraph, "-" or "1." for an item
\* of a <ul> or an <ol>
PrefixFor(j) ==
  CASE html[j].tag = "h" -> "#"
    [] html[j].tag = "p" -> ""
    [] html[j].tag = "li" ->
         IF html[ListStart(html, j)].tag = "ul" THEN "-" ELSE "1."

\* the Markdown lines stand one for one for the headings, paragraphs and
\* list items of html, in the same order, with the same text and level
SameBlocks ==
  /\ Len(markdown) = NumElems
  /\ \A n \in 1..Len(markdown) :
        /\ markdown[n].k = "md"
        /\ markdown[n].src = html[NthElem(n)].src
        /\ markdown[n].body = html[NthElem(n)].body
        /\ markdown[n].lvl = html[NthElem(n)].lvl
        /\ markdown[n].tag \in {"-", "1."} <=> html[NthElem(n)].tag = "li"

\* C26 (as claimed): when docx_to_html returns, the Markdown holds the
\* blocks of the HTML in the same order, and the prefix of every line is the
\* one that goes with its element: for a list item, "-" inside a <ul> and
\* "1." inside an <ol>.
C26_MarkdownParallel ==
  (prog = "docx" /\ pc = "done") =>
    /\ SameBlocks
    /\ \A n \in 1..Len(markdown) : markdown[n].tag = PrefixFor(NthElem(n))

(* ------------------------------------------------------------------ *)
(* C28                                                                 *)
(* ------------------------------------------------------------------ *)
\* the elements and comments of the output that came from input line i
EmittedForLine(i) ==
  {j \in 1..Len(output) : output[j].k \in {"elem", "comment"} /\ output[j].src = i}

\* C28 (as claimed): when plain_text_to_html returns, every non-blank input
\* line has exactly one element of the output (heading, comment, paragraph,
\* carousel block or list item).
C28_NoLineLost ==
  (prog = "txt" /\ pc = "done") =>
    \A i \in 1..Len(lines) :
       Strip(lines[i]) # <<>> => Cardinality(EmittedForLine(i)) = 1

(* ------------------------------------------------------------------ *)
(* C29                                                                 *)
(* ------------------------------------------------------------------ *)
\* the kind of the first item of the open list
FirstItemKind == TxtBranch(Strip(lines[list_items[1].src]))

\* C29: between two lines of plain_text_to_html, in_list holds exactly when
\* list_items is not empty and exactly when list_type is not None; list_type
\* is then the kind of the first item of the open list, which is 'ul' or
\* 'ol'; when the function returns the three are reset.
C29_ListState ==
  prog = "txt" =>
    /\ in_list <=> list_items # <<>>
    /\ in_list <=> list_type # NoneVal
    /\ in_list => list_type \in {"ul", "ol"} /\ list_type = FirstItemKind
    /\ pc = "done" => ~in_list /\ list_items = <<>> /\ list_type = NoneVal

\* a list opened by a bullet line holds a numbered line as its second item
C29_Witness ==
  /\ prog = "txt" /\ pc = "loop" /\ pos = 2
  /\ Len(list_items) = 2 /\ in_list
  /\ BlockKind(1) = "ul" /\ BlockKind(2) = "ol"
  /\ list_type = "ul"

(* ------------------------------------------------------------------ *)
(* C27: the batches of fetch_data_in_batches                           *)
(* ------------------------------------------------------------------ *)
\* how many of the requested batches cover day d
TimesRequested(d) ==
  Cardinality({i \in 1..Len(requests) :
                 requests[i].from <= d /\ d <= requests[i].to})

\* the requested batches partition [start_date, end_date]
BatchesPartition ==
  /\ requests # <<>>
  /\ requests[1].from = start_date
  /\ requests[Len(requests)].to = end_date
  /\ \A i \in 1..Len(requests) :
       /\ requests[i].from <= requests[i].to
       /\ requests[i].to - requests[i].from + 1 <= batch_days
  /\ \A i \in 1..(Len(requests) - 1) :
       requests[i + 1].from = requests[i].to + 1
  /\ \A d \in start_date..end_date : TimesRequested(d) = 1

\* the call never raises, and what it requested when it returns is a
\* partition of the range
BatchSafe == pc # "raised" /\ (pc = "done" => BatchesPartition)

CleanedIsOfLastClick ==
  \/ session_state.cleaned_html = <<>>
  \/ /\ clicked # <<>>
     /\ session_state.cleaned_html = clean_html(clicked[1])

\* C30: over any sequence of the events edit, Clean HTML and Clear,
\* cleaned_html changes only on Clean HTML or Clear (an edit of raw_html
\* leaves it unchanged); after Clear both raw_html and cleaned_html are
\* empty; cleaned_html is always empty or clean_html of the value raw_html
\* had at the most recent Clean HTML click; and the preview is shown exactly
\* when cleaned_html is non-empty.
C30_SessionState ==
  /\ [](prog = "app" =>
          /\ CleanedIsOfLastClick
          /\ (pc = "preview") <=> (session_state.cleaned_html # <<>>))
  /\ [][prog = "app" =>
          /\ (session_state'.cleaned_html # session_state.cleaned_html
                => ClickClean \/ ClickClear)
          /\ ((\E v \in AppInputs : EditRaw(v))
                => session_state'.cleaned_html = session_state.cleaned_html)
          /\ (ClickClear
                => session_state'.raw_html = <<>>
                   /\ session_state'.cleaned_html = <<>>)]_vars

\* after a click on Clean HTML that changed something, the input has been
\* edited: the preview shows the result of the text of the click, not of the
\* text now in the input
C30_Witness ==
  /\ prog = "app" /\ pc = "preview"
  /\ clicked # <<>>
  /\ session_state.raw_html # clicked[1]
  /\ session_state.raw_html # <<>>
  /\ session_state.cleaned_html = clean_html(clicked[1])
  /\ session_state.cleaned_html # clicked[1]
  /\ session_state.cleaned_html # clean_html(session_state.raw_html)

(* ------------------------------------------------------------------ *)
(* C21: no state across invocations                                    *)
(* ------------------------------------------------------------------ *)
\* the invocation with frame f is where the same call is when it runs
\* alone: in the loop of plain_text_to_html or docx_to_html its output,
\* list buffer and list kind are those of the function after f.pos blocks,
\* and when it has ended it has returned (or raised) what the function of
\* its argument returns
AsAlone(f) ==
  CASE f.prog = "txt" ->
         IF f.pc = "loop"
         THEN [output |-> f.output, in_list |-> f.in_list,
               list_type |-> f.list_type, list_items |-> f.list_items]
                = TxtLocals(f.lines, f.pos)
         ELSE f.output = plain_text_to_html(f.lines)
    [] f.prog = "docx" ->
         IF f.pc = "loop"
         THEN [html |-> f.html, markdown |-> f.markdown, in_list |-> f.in_list,
               list_type |-> f.list_type, list_buffer |-> f.list_buffer,
               md_list_buffer |-> f.md_list_buffer]
                = DocxLocals(f.paras, f.pos)
         ELSE docx_to_html(f.paras)
                = [pc |-> f.pc,
                   value |-> IF f.pc = "done" THEN <<f.html, f.markdown>> ELSE <<>>]
    [] f.prog = "clean" ->
         f.pc = "done" => f.result = clean_html(f.raw_html)
    [] OTHER -> TRUE

\* the two invocations were made with the same argument and have ended
SameCallEnded ==
  /\ prog = other.prog
  /\ pc \in {"done", "raised"} /\ other.pc \in {"done", "raised"}
  /\ lines = other.lines /\ paras = other.paras /\ raw_html = other.raw_html

\* a single invocation is where the function of its argument is
TxtAgrees == prog = "txt" => AsAlone(Frame)
DocxAgrees == prog = "docx" => AsAlone(Frame)

\* C21: the normalizers keep no state across invocations. Of two
\* invocations interleaved in any way, each one, running or suspended, has
\* at every moment the output accumulator, list buffer and list kind it has
\* when run alone, and returns what it returns alone; two invocations on
\* the same input return the same output.
C21_NoSharedState ==
  /\ AsAlone(Frame)
  /\ AsAlone(other)
  /\ SameCallEnded =>
       /\ pc = other.pc
       /\ output = other.output
       /\ html = other.html /\ markdown = other.markdown
       /\ result = other.result

\* two invocations of plain_text_to_html on different texts, both in the
\* middle of a list: one holds a bulleted item, the other a numbered one
C21_Witness ==
  /\ prog = "txt" /\ other.prog = "txt"
  /\ lines # other.lines
  /\ pc = "loop" /\ other.pc = "loop"
  /\ pos > 0 /\ other.pos > 0
  /\ list_items # <<>> /\ other.list_items # <<>>
  /\ list_type = "ul" /\ other.list_type = "ol"

Spec == Init /\ [][Next]_vars

====
